---------------------------- MODULE Spec2Model ----------------------------
(***************************************************************************)
(* Perspective projection visualiser: the linear (image-plane) projection, *)
(* the hemispherical (Postel) projection, and the 2D geometry kernel that  *)
(* draws edges and guide curves.                                           *)
(*                                                                         *)
(* Numbers are exact rationals <<n, d>> in lowest terms with d > 0.  The   *)
(* JavaScript value Infinity is <<1, 0>>.  Angles are kept as directions   *)
(* (the vector from a circle's centre to a point), so that the order of    *)
(* angles in [0, 2*pi) is decided exactly by signs of cross products.      *)
(***************************************************************************)
EXTENDS Integers, Sequences, FiniteSets, TLC

----------------------------------------------------------------------------
(* Exact rational arithmetic *)

Abs(n) == IF n < 0 THEN -n ELSE n

RECURSIVE Gcd(_, _)
Gcd(a, b) == IF b = 0 THEN a ELSE Gcd(b, a % b)

Sgn(n) == IF n > 0 THEN 1 ELSE IF n < 0 THEN -1 ELSE 0

\* n/d in lowest terms; d = 0 is JavaScript's Infinity
Q(n, d) ==
    IF d = 0 THEN <<1, 0>>
    ELSE LET g == Gcd(Abs(n), Abs(d))
             s == IF d < 0 THEN -1 ELSE 1
         IN  <<s * (n \div g), s * (d \div g)>>

I(n) == <<n, 1>>
Infinity == <<1, 0>>
NaN == <<0, 0>>

\* a property that was never set
undefined == <<>>

\* isNaN(value): the value does not convert to a number
isNaN(value) == value = undefined \/ value = NaN
isFinite(r) == r[2] # 0

\* sums and products are formed over the least common denominator
RAdd(a, b) ==
    IF a[2] = 0 \/ b[2] = 0 THEN Infinity
    ELSE LET g == Gcd(a[2], b[2])
         IN  Q(a[1] * (b[2] \div g) + b[1] * (a[2] \div g), (a[2] \div g) * b[2])
RSub(a, b) == RAdd(a, <<-b[1], b[2]>>)
RMul(a, b) ==
    IF a[2] = 0 \/ b[2] = 0 THEN Infinity
    ELSE LET g == Gcd(Abs(a[1]), b[2])
             h == Gcd(Abs(b[1]), a[2])
         IN  Q((a[1] \div g) * (b[1] \div h), (a[2] \div h) * (b[2] \div g))
RDiv(a, b) ==
    IF b[1] = 0 THEN Infinity
    ELSE RMul(a, IF b[1] < 0 THEN <<-b[2], -b[1]>> ELSE <<b[2], b[1]>>)
RNeg(a) == <<-a[1], a[2]>>
RAbs(a) == <<Abs(a[1]), a[2]>>
RLt(a, b) ==
    LET g == Gcd(a[2], b[2])
    IN  IF g = 0 THEN a[1] * b[2] < b[1] * a[2]
        ELSE a[1] * (b[2] \div g) < b[1] * (a[2] \div g)
RLe(a, b) == ~RLt(b, a)
RSgn(a) == Sgn(a[1])
RSq(a) == RMul(a, a)

----------------------------------------------------------------------------
(* THREE.Vector2 / THREE.Vector3 with rational components *)

V2(x, y) == [x |-> x, y |-> y]
V3(x, y, z) == [x |-> x, y |-> y, z |-> z]
IV2(x, y) == V2(I(x), I(y))
IV3(x, y, z) == V3(I(x), I(y), I(z))
InfPoint == V2(Infinity, Infinity)
isFinite2(p) == isFinite(p.x) /\ isFinite(p.y)

Sub2(a, b) == V2(RSub(a.x, b.x), RSub(a.y, b.y))
Sub3(a, b) == V3(RSub(a.x, b.x), RSub(a.y, b.y), RSub(a.z, b.z))
Add3(a, b) == V3(RAdd(a.x, b.x), RAdd(a.y, b.y), RAdd(a.z, b.z))
Cross2(a, b) == RSub(RMul(a.x, b.y), RMul(a.y, b.x))
Dot2(a, b) == RAdd(RMul(a.x, b.x), RMul(a.y, b.y))
LenSq2(a) == Dot2(a, a)
DistSq2(a, b) == LenSq2(Sub2(a, b))

----------------------------------------------------------------------------
(* Cube tables *)

\* arrays of 3, 6 and 8 elements, built element by element
Array3(F(_)) == <<F(1), F(2), F(3)>>
Array6(F(_)) == <<F(1), F(2), F(3), F(4), F(5), F(6)>>
Array8(F(_)) == <<F(1), F(2), F(3), F(4), F(5), F(6), F(7), F(8)>>


CUBE_SIZE == 4
CubeZ == -5

Axes == {0, 1, 2}
VertexIds == 0 .. 7

edges == <<0, 1, 1, 2, 2, 3, 3, 0, 4, 5, 5, 6, 6, 7, 7, 4, 0, 4, 1, 5, 2, 6, 3, 7>>

edgeAxisMapping ==
    [a \in Axes |->
        CASE a = 0 -> <<0, 1, 2, 3, 4, 5, 6, 7>>
          [] a = 1 -> <<0, 3, 1, 2, 4, 7, 5, 6>>
          [] a = 2 -> <<0, 4, 1, 5, 2, 6, 3, 7>>]

\* the entries 'i,j': axis of CUBE_MAPPINGS.edgeDirections
edgeDirectionEntries ==
    {<<0, 1, 0>>, <<1, 0, 0>>, <<1, 2, 1>>, <<2, 1, 1>>, <<2, 3, 0>>, <<3, 2, 0>>,
     <<3, 0, 1>>, <<0, 3, 1>>,
     <<4, 5, 0>>, <<5, 4, 0>>, <<5, 6, 1>>, <<6, 5, 1>>, <<6, 7, 0>>, <<7, 6, 0>>,
     <<7, 4, 1>>, <<4, 7, 1>>,
     <<0, 4, 2>>, <<4, 0, 2>>, <<1, 5, 2>>, <<5, 1, 2>>, <<2, 6, 2>>, <<6, 2, 2>>,
     <<3, 7, 2>>, <<7, 3, 2>>}

\* the value of a key in a set of entries (-1: undefined)
Lookup(entries, i, j) ==
    LET found == {t \in entries : t[1] = i /\ t[2] = j}
    IN  IF found = {} THEN -1 ELSE (CHOOSE t \in found : TRUE)[3]

\* a table that has each edge under one key only, with the smaller vertex
\* index first
edgeDirectionsOneKey(i, j) == Lookup({t \in edgeDirectionEntries : t[1] < t[2]}, i, j)

\* edgeDirections[`${i},${j}`]: the axis of the edge between two vertices
edgeDirections(i, j) == Lookup(edgeDirectionEntries, i, j)

\* local vertices of the cube, in the order of getCachedWorldVertices
localVertices ==
    LET h == CUBE_SIZE \div 2
    IN  << <<-h, -h, -h>>, <<h, -h, -h>>, <<h, h, -h>>, <<-h, h, -h>>,
           <<-h, -h, h>>, <<h, -h, h>>, <<h, h, h>>, <<-h, h, h>> >>

----------------------------------------------------------------------------
(* Bounds of the model *)

\* number of control changes (slider, checkbox) followed from the start
MaxChanges == 3

----------------------------------------------------------------------------
(* Cube orientation.  Slider angles are in degrees; 37 stands for the     *)
(* angle atan(3/4) = 36.8699 degrees, whose sine and cosine are exactly   *)
(* 3/5 and 4/5, so 53 = 90 - 37, 127 = 90 + 37 and so on.                 *)

Mod360(a) == ((a % 360) + 360) % 360

CosDeg(a) ==
    LET m == Mod360(a)
    IN  CASE m = 0 -> I(1)
          [] m \in {37, 323} -> Q(4, 5)
          [] m \in {53, 307} -> Q(3, 5)
          [] m \in {90, 270} -> I(0)
          [] m \in {127, 233} -> Q(-3, 5)
          [] m \in {143, 217} -> Q(-4, 5)
          [] m = 180 -> I(-1)

SinDeg(a) == CosDeg(a - 90)

Identity3 == << <<I(1), I(0), I(0)>>, <<I(0), I(1), I(0)>>, <<I(0), I(0), I(1)>> >>

\* rotation matrix about a coordinate axis (0 = x, 1 = y, 2 = z)
makeRotationAxis(axis, deg) ==
    LET c == CosDeg(deg)
        s == SinDeg(deg)
    IN  CASE axis = 0 -> << <<I(1), I(0), I(0)>>, <<I(0), c, RNeg(s)>>, <<I(0), s, c>> >>
          [] axis = 1 -> << <<c, I(0), s>>, <<I(0), I(1), I(0)>>, <<RNeg(s), I(0), c>> >>
          [] axis = 2 -> << <<c, RNeg(s), I(0)>>, <<s, c, I(0)>>, <<I(0), I(0), I(1)>> >>

MatMul(a, b) ==
    [i \in 1 .. 3 |->
        [j \in 1 .. 3 |->
            RAdd(RAdd(RMul(a[i][1], b[1][j]), RMul(a[i][2], b[2][j])),
                 RMul(a[i][3], b[3][j]))]]

\* Object3D.rotateOnAxis: a rotation about the cube's own axis
rotateOnAxis(m, axis, deg) == MatMul(m, makeRotationAxis(axis, deg))

\* Matrix4.determinant of a transform with this upper 3x3 part
Determinant3(m) ==
    RAdd(RSub(RMul(m[1][1], RSub(RMul(m[2][2], m[3][3]), RMul(m[2][3], m[3][2]))),
              RMul(m[1][2], RSub(RMul(m[2][1], m[3][3]), RMul(m[2][3], m[3][1])))),
         RMul(m[1][3], RSub(RMul(m[2][1], m[3][2]), RMul(m[2][2], m[3][1]))))

\* Matrix4.makeRotationFromEuler for the order XYZ
makeRotationFromEuler(rotation) ==
    MatMul(MatMul(makeRotationAxis(0, rotation.x), makeRotationAxis(1, rotation.y)),
           makeRotationAxis(2, rotation.z))

\* Math.abs(det - 1.0) > 0.01
IsDrifted(m) == RLt(Q(1, 100), RAbs(RSub(Determinant3(m), I(1))))

\* the auto-fix of the hemispherical update: a matrix whose determinant is
\* far from 1 is replaced by the rotation of the cube's Euler angles
\* (state.cube.rotation, which for a cube turned about one axis of its own
\* holds that turn), any other matrix stays
autoFixMatrix(m, rotation) == IF IsDrifted(m) THEN makeRotationFromEuler(rotation) ELSE m

\* cube.matrixWorld: the rotation and the cube's position
matrixWorld(m) == [rot |-> m, pos |-> IV3(0, 0, CubeZ)]

applyMatrix4(v, mw) ==
    LET r == mw.rot
        row(i) == RAdd(RAdd(RMul(r[i][1], I(v[1])), RMul(r[i][2], I(v[2]))),
                       RMul(r[i][3], I(v[3])))
    IN  Add3(V3(row(1), row(2), row(3)), mw.pos)

\* orientations whose world axes keep coordinates in fifths, with one
\* coordinate of every axis zero: the ones this model computes exactly
IsExactOrientation(m) ==
    /\ \A i \in 1 .. 3 : \A j \in 1 .. 3 : m[i][j][2] \in {1, 5}
    /\ \A j \in 1 .. 3 : \E i \in 1 .. 3 : m[i][j] = I(0)

----------------------------------------------------------------------------
(* World vertices of the cube, with the cache of getCachedWorldVertices *)

ComputeWorldVertices(mw) == Array8(LAMBDA i : applyMatrix4(localVertices[i], mw))

NoVertices == <<>>

\* a lookup that does not compare the transform with the one remembered
getCachedWorldVerticesOnce(cache, lastMw, mw) ==
    IF cache = NoVertices
    THEN [vertices |-> ComputeWorldVertices(mw), last |-> mw]
    ELSE [vertices |-> cache, last |-> lastMw]

\* the cache after the call: recomputed when the transform differs from the
\* one remembered or when there is no cache
getCachedWorldVertices(cache, lastMw, mw) ==
    IF lastMw # mw \/ cache = NoVertices
    THEN [vertices |-> ComputeWorldVertices(mw), last |-> mw]
    ELSE [vertices |-> cache, last |-> lastMw]

\* a clearGroup that removes nothing
keepGroup(group) == group

\* clearGroup: a group without children
clearGroup(group) == <<>>

----------------------------------------------------------------------------
(* Linear perspective projection *)

getImagePlaneZ(vp, R) == RSub(vp.z, I(R))

\* a projection left in world coordinates, not referred to the viewpoint
LinearProjectVertexInWorld(worldVertex, vp, R) ==
    LET currentImagePlaneZ == getImagePlaneZ(vp, R)
        x == RSub(worldVertex.x, vp.x)
        y == RSub(worldVertex.y, vp.y)
        z == RSub(worldVertex.z, vp.z)
    IN  IF z # I(0)
        THEN V2(RAdd(RDiv(RMul(x, RSub(currentImagePlaneZ, vp.z)), z), vp.x),
                RAdd(RDiv(RMul(y, RSub(currentImagePlaneZ, vp.z)), z), vp.y))
        ELSE InfPoint

\* one vertex onto the image plane, in the frame where the viewpoint is the origin
LinearProjectVertex(worldVertex, vp, R) ==
    LET currentImagePlaneZ == getImagePlaneZ(vp, R)
        x == RSub(worldVertex.x, vp.x)
        y == RSub(worldVertex.y, vp.y)
        z == RSub(worldVertex.z, vp.z)
    IN  IF z # I(0)
        THEN LET x_proj == RAdd(RDiv(RMul(x, RSub(currentImagePlaneZ, vp.z)), z), vp.x)
                 y_proj == RAdd(RDiv(RMul(y, RSub(currentImagePlaneZ, vp.z)), z), vp.y)
                 x_ref == RSub(x_proj, vp.x)
                 y_ref == RSub(y_proj, vp.y)
             IN  V2(x_ref, y_ref)
        ELSE InfPoint

\* the vanishing point of an edge direction
LinearVanishingPoint(dir, vp, R) ==
    LET currentImagePlaneZ == getImagePlaneZ(vp, R)
        dz == dir.z
    IN  IF RLt(Q(1, 10000), RAbs(dz))
        THEN LET t == RDiv(RSub(currentImagePlaneZ, vp.z), dz)
                 vp_x == RAdd(vp.x, RMul(t, dir.x))
                 vp_y == RAdd(vp.y, RMul(t, dir.y))
             IN  V2(RSub(vp_x, vp.x), RSub(vp_y, vp.y))
        ELSE InfPoint

\* dirX, dirY, dirZ: the cube's edge directions in the world
AxisDirections(wv) == <<Sub3(wv[2], wv[1]), Sub3(wv[4], wv[1]), Sub3(wv[5], wv[1])>>

\* the objects made for the indices 1 .. n that pass a test, in order
Collect(n, Keep(_), Make(_)) ==
    LET kept == SelectSeq([i \in 1 .. n |-> i], Keep)
    IN  [k \in 1 .. Len(kept) |-> Make(kept[k])]

LinearProjectedVertices(wv, vp, R) == Array8(LAMBDA i : LinearProjectVertex(wv[i], vp, R))

LinearVanishingPoints(wv, vp, R) ==
    Array3(LAMBDA a : LinearVanishingPoint(AxisDirections(wv)[a], vp, R))

\* the red rays from the viewpoint to the vertices
RedRays(wv, vp, show) ==
    IF show THEN Array8(LAMBDA i : [kind |-> "ray", from |-> vp, to |-> wv[i]])
    ELSE <<>>

\* projected cube edges drawn whatever their end points
LinearEdgeLinesUnchecked(pv) ==
    Collect(12,
            LAMBDA e : TRUE,
            LAMBDA e : [kind |-> "edge", from |-> pv[edges[2 * e - 1] + 1],
                        to |-> pv[edges[2 * e] + 1]])

\* projected cube edges: only those with both end points finite
LinearEdgeLines(pv) ==
    Collect(12,
            LAMBDA e : isFinite2(pv[edges[2 * e - 1] + 1]) /\ isFinite2(pv[edges[2 * e] + 1]),
            LAMBDA e : [kind |-> "edge", from |-> pv[edges[2 * e - 1] + 1],
                        to |-> pv[edges[2 * e] + 1]])

LinearVPMarkers(vps) ==
    Collect(3, LAMBDA a : isFinite2(vps[a]),
               LAMBDA a : [kind |-> "vp", axis |-> a - 1, at |-> vps[a]])

\* guide lines drawn without looking at the vanishing point
LinearAxisGuidesUnchecked(pv, vps, a) ==
    Collect(8,
            LAMBDA k : isFinite2(pv[edgeAxisMapping[a - 1][k] + 1]),
            LAMBDA k : [kind |-> "guide", axis |-> a - 1,
                        from |-> pv[edgeAxisMapping[a - 1][k] + 1], to |-> vps[a]])

\* guide lines of one axis: from every listed vertex to the vanishing point
LinearAxisGuides(pv, vps, a) ==
    IF ~isFinite2(vps[a]) THEN <<>>
    ELSE Collect(8,
                 LAMBDA k : isFinite2(pv[edgeAxisMapping[a - 1][k] + 1]),
                 LAMBDA k : [kind |-> "guide", axis |-> a - 1,
                             from |-> pv[edgeAxisMapping[a - 1][k] + 1], to |-> vps[a]])

LinearGuideLines(pv, vps) ==
    LinearAxisGuides(pv, vps, 1) \o LinearAxisGuides(pv, vps, 2)
        \o LinearAxisGuides(pv, vps, 3)

createLinear2DBoundary(R, shape) == [shape |-> shape, radius |-> R]

----------------------------------------------------------------------------
(* Square roots, pi and arc tangents.  Math.sqrt is exact on squares of   *)
(* rationals and rounded down to thousandths elsewhere.  Math.PI is 22/7  *)
(* and the arc tangents of the slopes 3/4 and 4/3 are 9/14 and 13/14,     *)
(* which keeps atan(3/4) + atan(4/3) = pi/2; every value the model        *)
(* compares with a tolerance stays far from it.                           *)

RECURSIVE ISqrtBetween(_, _, _)
ISqrtBetween(n, lo, hi) ==
    IF lo >= hi THEN lo
    ELSE LET mid == (lo + hi + 1) \div 2
         IN  IF mid * mid <= n THEN ISqrtBetween(n, mid, hi)
             ELSE ISqrtBetween(n, lo, mid - 1)

\* the integer square root, for n below 2^31
ISqrt(n) == ISqrtBetween(n, 0, IF n < 46340 THEN n ELSE 46340)

IsSquare(n) == ISqrt(n) * ISqrt(n) = n

Sqrt(r) ==
    IF IsSquare(r[1]) /\ IsSquare(r[2]) THEN Q(ISqrt(r[1]), ISqrt(r[2]))
    ELSE Q(ISqrt((r[1] * 1000000) \div r[2]), 1000)

Pi == Q(22, 7)
HalfPi == Q(11, 7)

\* Math.atan2(y, x) for x >= 0 on the slopes the exact orientations produce
Atan2(y, x) ==
    LET t == IF x = I(0) THEN Infinity ELSE RDiv(RAbs(y), x)
        a == CASE y = I(0) -> I(0)
               [] y # I(0) /\ x = I(0) -> HalfPi
               [] y # I(0) /\ t = Q(3, 4) -> Q(9, 14)
               [] y # I(0) /\ t = I(1) -> Q(11, 14)
               [] y # I(0) /\ t = Q(4, 3) -> Q(13, 14)
    IN  IF RSgn(y) < 0 THEN RNeg(a) ELSE a

boundaryRadiusOf(R) == RMul(HalfPi, I(R))

\* calculateDistance: the distance of a 2D point from the centre
calculateDistance(p) == Sqrt(LenSq2(p))

----------------------------------------------------------------------------
(* Hemispherical projection of a direction.  theta is the elevation of    *)
(* the direction in the YZ plane, phi in the XZ plane, both against |z|.  *)
(* An angle is kept as the reduced pair <<y, z>> of atan2(y, z).  The     *)
(* tolerance 0.001 rad is compared through tan(0.001) = 1/1000.           *)

AngleZero == <<0, 1>>

IsAngleZero(y, z) == y = I(0) \/ RLt(RMul(I(1000), RAbs(y)), RAbs(z))

IsAngleBoundary(y, z) == y # I(0) /\ RLt(RMul(I(1000), RAbs(z)), RAbs(y))

\* atan2(y, |z|) as a reduced pair of integers; angles below 0.001 are zero
SymAngle(y, z) ==
    IF IsAngleZero(y, z) THEN AngleZero
    ELSE LET a == y[1] * z[2]
             b == Abs(z[1]) * y[2]
             g == Gcd(Abs(a), b)
         IN  <<a \div g, b \div g>>

\* a projected cube vertex: in general the crossing of the circle through
\* p_theta, X1, X2 with the circle through p_phi, Y1, Y2, whose coordinates
\* are irrational; the model keeps the two angles that determine the point.
\* The two circles are the same boundary circle when both angles are right
\* angles: intersectCircles then returns nothing and the vertex is
\* Vector2(Infinity, Infinity).
HemiProjectVertex(worldVertex, vp) ==
    LET direction == Sub3(worldVertex, vp)
        theta == SymAngle(direction.y, direction.z)
        phi == SymAngle(direction.x, direction.z)
        isThetaZero == theta = AngleZero
        isPhiZero == phi = AngleZero
    IN  IF isThetaZero /\ isPhiZero THEN [finite |-> TRUE, theta |-> AngleZero, phi |-> AngleZero]
        ELSE IF isThetaZero THEN [finite |-> TRUE, theta |-> AngleZero, phi |-> phi]
        ELSE IF isPhiZero THEN [finite |-> TRUE, theta |-> theta, phi |-> AngleZero]
        ELSE [finite |-> ~(theta[2] = 0 /\ phi[2] = 0), theta |-> theta, phi |-> phi]

HemiProjectedVertices(wv, vp) == Array8(LAMBDA i : HemiProjectVertex(wv[i], vp))

HemiAtCentre(v) == v.theta = AngleZero /\ v.phi = AngleZero

\* the extended red rays, from the viewpoint along each vertex direction
HemiRedRays(wv, vp, show) ==
    IF show THEN Array8(LAMBDA i : [kind |-> "extended", from |-> vp, to |-> wv[i]])
    ELSE <<>>

Null == V2(<<0, 0>>, <<0, 0>>)

\* the inside vanishing point of a unit edge direction.  Every axis of an
\* exact orientation has a zero coordinate, so the point is on the boundary,
\* at the centre or on a coordinate axis; the crossing of two circles, which
\* the code uses for the other directions, does not occur.
HemiInsideVP(dir, R) ==
    LET b == boundaryRadiusOf(R)
        posDotProduct == RNeg(dir.z)
        negDotProduct == dir.z
        direction == IF RLt(negDotProduct, posDotProduct) THEN dir
                     ELSE V3(RNeg(dir.x), RNeg(dir.y), RNeg(dir.z))
        absz == RAbs(direction.z)
        isThetaBoundary == IsAngleBoundary(direction.y, absz)
        isPhiBoundary == IsAngleBoundary(direction.x, absz)
        isThetaZero == IsAngleZero(direction.y, absz)
        isPhiZero == IsAngleZero(direction.x, absz)
        xy == Sqrt(RAdd(RSq(direction.x), RSq(direction.y)))
    IN  CASE isThetaBoundary \/ isPhiBoundary ->
                 V2(RMul(b, RDiv(direction.x, xy)), RMul(b, RDiv(direction.y, xy)))
          [] ~(isThetaBoundary \/ isPhiBoundary) /\ isThetaZero /\ isPhiZero -> IV2(0, 0)
          [] ~(isThetaBoundary \/ isPhiBoundary) /\ isThetaZero /\ ~isPhiZero ->
                 V2(RMul(I(R), Atan2(direction.x, absz)), I(0))
          [] ~(isThetaBoundary \/ isPhiBoundary) /\ ~isThetaZero /\ isPhiZero ->
                 V2(I(0), RMul(I(R), Atan2(direction.y, absz)))

\* the outside vanishing point: the inversion of the inside one in the
\* boundary circle, on the opposite side of the centre
\* an inversion that stays on the side of the inside vanishing point
HemiOutsideVPSameSide(insideVP, b) ==
    IF insideVP = Null THEN Null
    ELSE LET insideDistance == calculateDistance(insideVP)
         IN  IF RLt(Q(1, 1000), insideDistance)
             THEN LET outsideDistance == RDiv(RSq(b), insideDistance)
                  IN  V2(RMul(outsideDistance, RDiv(insideVP.x, insideDistance)),
                         RMul(outsideDistance, RDiv(insideVP.y, insideDistance)))
             ELSE Null

HemiOutsideVP(insideVP, b) ==
    IF insideVP = Null THEN Null
    ELSE LET insideDistance == calculateDistance(insideVP)
         IN  IF RLt(Q(1, 1000), insideDistance)
             THEN LET outsideDistance == RDiv(RSq(b), insideDistance)
                      cosOut == RNeg(RDiv(insideVP.x, insideDistance))
                      sinOut == RNeg(RDiv(insideVP.y, insideDistance))
                  IN  V2(RMul(outsideDistance, cosOut), RMul(outsideDistance, sinOut))
             ELSE Null

\* Vector3.normalize
normalize(d) ==
    LET length == Sqrt(RAdd(RAdd(RSq(d.x), RSq(d.y)), RSq(d.z)))
    IN  IF length = I(0) THEN d
        ELSE V3(RDiv(d.x, length), RDiv(d.y, length), RDiv(d.z, length))

\* vanishingPoints: <<inside X, outside X, inside Y, outside Y, inside Z, outside Z>>
HemiVanishingPoints(wv, R) ==
    LET dirs == AxisDirections(wv)
        inside(a) == HemiInsideVP(normalize(dirs[a]), R)
    IN  Array6(LAMBDA k :
            IF k % 2 = 1 THEN inside((k + 1) \div 2)
            ELSE HemiOutsideVP(inside(k \div 2), boundaryRadiusOf(R)))

----------------------------------------------------------------------------
(* Guide curves and edges of the hemispherical view.  A curve through     *)
(* projected vertices is recorded by the edge it belongs to and the       *)
(* vanishing point it runs to.                                            *)

\* the k-th edge (k = 1 .. 4) of an axis in edgeAxisMapping, as vertex indices
AxisEdge(a, k) == <<edgeAxisMapping[a - 1][2 * k - 1], edgeAxisMapping[a - 1][2 * k]>>

BothFinite(pv, e) == pv[e[1] + 1].finite /\ pv[e[2] + 1].finite

\* a boundary test with a tolerance of 0.1%
IsOnBoundaryTenthPercent(distance, b) == RLt(RAbs(RSub(distance, b)), RMul(b, Q(1, 1000)))

IsOnBoundary(distance, b) == RLt(RAbs(RSub(distance, b)), RMul(b, Q(1, 100)))

IsAtCentre(distance, b) == RLt(distance, RMul(b, Q(1, 100)))

\* both vanishing points of the axis lie on the boundary circle
IsDegenerateAxis(vps, a, b) ==
    /\ isFinite2(vps[2 * a - 1])
    /\ isFinite2(vps[2 * a])
    /\ IsOnBoundary(calculateDistance(vps[2 * a - 1]), b)
    /\ IsOnBoundary(calculateDistance(vps[2 * a]), b)

\* the arcs of a degenerate axis: for each edge one to the inside and one to
\* the outside vanishing point
HemiDegenerateArcs(pv, vps, b, a) ==
    IF ~IsDegenerateAxis(vps, a, b) THEN <<>>
    ELSE Collect(8,
                 LAMBDA n : BothFinite(pv, AxisEdge(a, (n + 1) \div 2)),
                 LAMBDA n : [kind |-> "extended", axis |-> a - 1,
                             edge |-> AxisEdge(a, (n + 1) \div 2),
                             to |-> vps[2 * a - (n % 2)]])

\* the straight lines of an axis whose vanishing point is at the centre
HemiCentreLines(pv, a, centre) ==
    Collect(4,
            LAMBDA k : /\ BothFinite(pv, AxisEdge(a, k))
                       /\ ~(HemiAtCentre(pv[AxisEdge(a, k)[1] + 1])
                            /\ HemiAtCentre(pv[AxisEdge(a, k)[2] + 1])),
            LAMBDA k : [kind |-> "through", axis |-> a - 1, edge |-> AxisEdge(a, k),
                        to |-> centre])

HemiGuidesTo(pv, a, vp) ==
    Collect(4,
            LAMBDA k : BothFinite(pv, AxisEdge(a, k)),
            LAMBDA k : [kind |-> "guide", axis |-> a - 1, edge |-> AxisEdge(a, k),
                        to |-> vp])

NoGuides == [lines |-> <<>>, special |-> <<>>, thrown |-> FALSE]

\* one pass of the guide loop: the lines added to extensionLines, the lines
\* kept for the end, and whether the pass reads a field of null
HemiAxisGuides(pv, vps, b, a) ==
    LET insideVP == vps[2 * a - 1]
        outsideVP == vps[2 * a]
        isVpAtCenter == isFinite2(insideVP) /\ IsAtCentre(calculateDistance(insideVP), b)
    IN  IF ~isFinite2(insideVP) THEN NoGuides
        ELSE IF isVpAtCenter
        THEN [NoGuides EXCEPT !.special = HemiCentreLines(pv, a, insideVP)]
        ELSE IF outsideVP = Null THEN [NoGuides EXCEPT !.thrown = TRUE]
        ELSE IF /\ IsOnBoundary(calculateDistance(insideVP), b)
                /\ IsOnBoundary(calculateDistance(outsideVP), b)
        THEN NoGuides
        ELSE IF ~isFinite2(outsideVP)
        THEN [NoGuides EXCEPT !.lines = HemiGuidesTo(pv, a, insideVP)]
        ELSE IF IsAtCentre(calculateDistance(outsideVP), b)
        THEN [NoGuides EXCEPT !.lines = HemiGuidesTo(pv, a, insideVP),
                              !.special = HemiCentreLines(pv, a, outsideVP)]
        ELSE [NoGuides EXCEPT !.lines = HemiGuidesTo(pv, a, insideVP)
                                            \o HemiGuidesTo(pv, a, outsideVP)]

\* getVanishingPointForEdge: the inside vanishing point of the edge's axis
getVanishingPointForEdge(vps, v1Index, v2Index) ==
    LET axisIndex == edgeDirections(v1Index, v2Index)
    IN  IF axisIndex = -1 THEN Null ELSE vps[2 * axisIndex + 1]

\* the markers of the finite vertices and then the edges: a straight line
\* when the vanishing point is at the centre or missing, else createEdgeArc
HemiEdgeLines(pv, vps, b) ==
    Collect(8, LAMBDA i : pv[i].finite, LAMBDA i : [kind |-> "vertex", at |-> pv[i]])
    \o Collect(12,
            LAMBDA e : pv[edges[2 * e - 1] + 1].finite /\ pv[edges[2 * e] + 1].finite,
            LAMBDA e :
                LET vp == getVanishingPointForEdge(vps, edges[2 * e - 1], edges[2 * e])
                    shape == IF isFinite2(vp)
                             THEN IF IsAtCentre(calculateDistance(vp), b) THEN "line"
                                  ELSE "createEdgeArc"
                             ELSE "line"
                IN  [kind |-> "edge", v1 |-> edges[2 * e - 1], v2 |-> edges[2 * e],
                     shape |-> shape, vp |-> vp])

HemiVPMarkers(vps) ==
    Collect(6, LAMBDA k : vps[k] # Null, LAMBDA k : [kind |-> "vp", at |-> vps[k]])

createHemi2DBoundary(R) == [shape |-> "circle", radius |-> boundaryRadiusOf(R)]

----------------------------------------------------------------------------
(* The 2D geometry kernel: circles through three points and the arcs      *)
(* sampled on them.  A radius is kept as its square.  An angle about a    *)
(* centre is kept as the direction from the centre to the point; a        *)
(* sampled polyline is kept as its circle, the directions of its first    *)
(* and last sample and the sense in which the samples advance.            *)

\* a < 1/n for a >= 0, decided without forming a * n
BelowOneIn(a, n) == a[1] <= (a[2] - 1) \div n

RMax(a, b) == IF RLt(a, b) THEN b ELSE a

\* 2 * (ax * (by - cy) + bx * (cy - ay) + cx * (ay - by))
Determinant(a, b, c) ==
    RMul(I(2), RAdd(RAdd(RMul(a.x, RSub(b.y, c.y)), RMul(b.x, RSub(c.y, a.y))),
                    RMul(c.x, RSub(a.y, b.y))))

\* the circumcentre <<ux, uy>> of a, b, c for the determinant d
Circumcentre(a, b, c, d) ==
    LET a_sq == LenSq2(a)
        b_sq == LenSq2(b)
        c_sq == LenSq2(c)
    IN  V2(RDiv(RAdd(RAdd(RMul(a_sq, RSub(b.y, c.y)), RMul(b_sq, RSub(c.y, a.y))),
                     RMul(c_sq, RSub(a.y, b.y))), d),
           RDiv(RAdd(RAdd(RMul(a_sq, RSub(c.x, b.x)), RMul(b_sq, RSub(a.x, c.x))),
                     RMul(c_sq, RSub(b.x, a.x))), d))

NoCircle == [found |-> FALSE]

findCircle(p1, p2, p3) ==
    LET D == Determinant(p1, p2, p3)
    IN  IF BelowOneIn(RAbs(D), 100000000) THEN NoCircle
        ELSE LET c == Circumcentre(p1, p2, p3, D)
             IN  [found |-> TRUE, center |-> c, radiusSq |-> DistSq2(p1, c)]

computeCircleFromThreePoints(p1, p2, p3) ==
    LET d == Determinant(p1, p2, p3)
        area == RDiv(RAbs(Cross2(Sub2(p2, p1), Sub2(p3, p1))), I(2))
    IN  IF BelowOneIn(area, 1000) THEN NoCircle
        ELSE LET c == Circumcentre(p1, p2, p3, d)
             IN  [found |-> TRUE, center |-> c, radiusSq |-> DistSq2(p1, c)]

\* arePointsCollinear of createArc and createEdgeArc; a, b, c are the points
\* the enclosing function names (ax, ay), (bx, by), (cx, cy)
arePointsCollinear(p1, p2, p3, a, b, c) ==
    LET crossProduct == RAbs(Cross2(Sub2(p2, p1), Sub2(p3, p1)))
        area == RDiv(crossProduct, I(2))
        d == Determinant(a, b, c)
        maxCoord == RMax(RMax(RMax(RAbs(a.x), RAbs(a.y)), RMax(RAbs(b.x), RAbs(b.y))),
                         RMax(RAbs(c.x), RAbs(c.y)))
        below(v) == IF RLt(I(100), maxCoord)
                    THEN BelowOneIn(RDiv(v, maxCoord), 100000000)
                    ELSE BelowOneIn(v, 1000000)
    IN  below(area) \/ below(crossProduct) \/ below(RAbs(d))

\* the half turn an angle of getAngle lies in: 0 for [0, pi), 1 for [pi, 2 pi)
HalfTurn(d) == IF RSgn(d.y) > 0 \/ (RSgn(d.y) = 0 /\ RSgn(d.x) > 0) THEN 0 ELSE 1

\* getAngle(center, p) < getAngle(center, q), for the directions d and e of p and q
AngleLt(d, e) ==
    \/ HalfTurn(d) < HalfTurn(e)
    \/ HalfTurn(d) = HalfTurn(e) /\ RSgn(Cross2(d, e)) > 0

getAngle(center, point) == Sub2(point, center)

\* determineArcParameters without the final negation
determineArcParametersAsTested(angles) ==
    LET startAngle == angles[1]
        midAngle == angles[2]
        endAngle == angles[3]
        isMidInCCWArc ==
            IF AngleLt(startAngle, endAngle)
            THEN AngleLt(startAngle, midAngle) /\ AngleLt(midAngle, endAngle)
            ELSE AngleLt(startAngle, midAngle) \/ AngleLt(midAngle, endAngle)
    IN  [startAngle |-> startAngle, endAngle |-> endAngle,
         counterClockwise |-> isMidInCCWArc]

determineArcParameters(angles) ==
    LET startAngle == angles[1]
        midAngle == angles[2]
        endAngle == angles[3]
        isMidInCCWArc ==
            IF AngleLt(startAngle, endAngle)
            THEN AngleLt(startAngle, midAngle) /\ AngleLt(midAngle, endAngle)
            ELSE AngleLt(startAngle, midAngle) \/ AngleLt(midAngle, endAngle)
    IN  [startAngle |-> startAngle, endAngle |-> endAngle,
         counterClockwise |-> ~isMidInCCWArc]

StraightLine(points) == [kind |-> "line", points |-> points]

SampledArc(center, radiusSq, startAngle, endAngle, counterClockwise) ==
    [kind |-> "arc", center |-> center, radiusSq |-> radiusSq,
     startAngle |-> startAngle, endAngle |-> endAngle,
     counterClockwise |-> counterClockwise]

createArcWithEndpoints(startPoint, endPoint, middlePoint) ==
    LET circle == findCircle(startPoint, middlePoint, endPoint)
    IN  IF ~circle.found THEN StraightLine(<<startPoint, endPoint>>)
        ELSE LET arcData == determineArcParameters(
                                <<getAngle(circle.center, startPoint),
                                  getAngle(circle.center, middlePoint),
                                  getAngle(circle.center, endPoint)>>)
             IN  SampledArc(circle.center, circle.radiusSq, arcData.startAngle,
                            arcData.endAngle, arcData.counterClockwise)

\* the sense of the sweep angleDiff = angle2 - angle1 brought into [-pi, pi],
\* for Math.atan2 angles in (-pi, pi]: positive is counter-clockwise
ShorterSweepIsCCW(d1, d2) ==
    LET c == RSgn(Cross2(d1, d2))
    IN  \/ c > 0
        \/ c = 0 /\ (RSgn(d1.y) < 0 \/ (RSgn(d1.y) = 0 /\ RSgn(d1.x) > 0))

\* the sort of createArc's collinear branch: by x, and by y where x agrees
\* to within 1e-6
SortsBefore(a, b) ==
    IF ~BelowOneIn(RAbs(RSub(a.x, b.x)), 1000000) /\ RAbs(RSub(a.x, b.x)) # Q(1, 1000000)
    THEN RLt(a.x, b.x)
    ELSE RLt(a.y, b.y)

SortPoints(p, q, r) ==
    LET s1 == IF SortsBefore(q, p) THEN <<q, p>> ELSE <<p, q>>
    IN  IF SortsBefore(r, s1[1]) THEN <<r, s1[1], s1[2]>>
        ELSE IF SortsBefore(r, s1[2]) THEN <<s1[1], r, s1[2]>>
        ELSE <<s1[1], s1[2], r>>

createArc(p1, p2, p3) ==
    IF arePointsCollinear(p1, p2, p3, p1, p2, p3)
    THEN StraightLine(SortPoints(p1, p2, p3))
    ELSE LET center == Circumcentre(p1, p2, p3, Determinant(p1, p2, p3))
             angle1 == Sub2(p1, center)
             angle2 == Sub2(p2, center)
         IN  SampledArc(center, DistSq2(p1, center), angle1, angle2,
                        ShorterSweepIsCCW(angle1, angle2))

\* an edge arc that runs on to the vanishing point
createEdgeArcTowardsVP(vertex1, vertex2, vanishingPoint) ==
    IF arePointsCollinear(vertex1, vanishingPoint, vertex2, vertex1, vanishingPoint, vertex2)
    THEN StraightLine(<<vertex1, vanishingPoint>>)
    ELSE LET center == Circumcentre(vertex1, vanishingPoint, vertex2,
                                    Determinant(vertex1, vanishingPoint, vertex2))
             angle1 == Sub2(vertex1, center)
             angle2 == Sub2(vanishingPoint, center)
         IN  SampledArc(center, DistSq2(vertex1, center), angle1, angle2,
                        ShorterSweepIsCCW(angle1, angle2))

createEdgeArc(vertex1, vertex2, vanishingPoint) ==
    IF arePointsCollinear(vertex1, vanishingPoint, vertex2, vertex1, vanishingPoint, vertex2)
    THEN StraightLine(<<vertex1, vertex2>>)
    ELSE LET center == Circumcentre(vertex1, vanishingPoint, vertex2,
                                    Determinant(vertex1, vanishingPoint, vertex2))
             angle1 == Sub2(vertex1, center)
             angle2 == Sub2(vertex2, center)
         IN  SampledArc(center, DistSq2(vertex1, center), angle1, angle2,
                        ShorterSweepIsCCW(angle1, angle2))

\* the first and last point of a sampled polyline: center + radius * (cos, sin)
\* of the first and of the last sampled angle
FirstPoint(line) ==
    IF line.kind = "line" THEN line.points[1]
    ELSE V2(RAdd(line.center.x, line.startAngle.x), RAdd(line.center.y, line.startAngle.y))

LastPoint(line) ==
    IF line.kind = "line" THEN line.points[Len(line.points)]
    ELSE V2(RAdd(line.center.x, line.endAngle.x), RAdd(line.center.y, line.endAngle.y))

----------------------------------------------------------------------------
(* The application state *)

VARIABLES
    viewpointPosition,      \* state.viewpointPosition
    hemisphereRadius,       \* state.hemisphereRadius
    cubeLocalRotation,      \* state.cubeLocalRotation, degrees per axis
    cubeMatrix,             \* the rotation of state.cube
    showRedRays,            \* state.showRedRays
    linearProjectionShape,  \* state.linearProjectionShape
    cachedWorldVertices,    \* state.cachedWorldVertices
    lastCubeMatrixWorld,    \* state.lastCubeMatrixWorld
    lastUpdateHash,         \* ProjectionManager.lastUpdateHash
    groups,                 \* state.groups: the children of the drawing groups
    boundaries,             \* the boundary objects of the 2D scenes and window.*Boundary
    linear,                 \* projectedVertices and vanishingPoints of the last linear update
    hemi,                   \* projectedVertices and vanishingPoints of the last hemispherical update
    thrown,                 \* an update ended with an exception
    hemispherePosition,     \* state.hemisphere.position
    changes,                \* control changes so far
    updates,                \* projection updates carried out so far
    kernelIn,               \* arguments of a geometry kernel call
    kernelOut,              \* its result
    sliderValue,            \* the value of each control's range input
    numberValue,            \* the value of each control's number input
    lastInput,              \* the last input event handled: control, field, value
    isDragging,             \* controls.js: the Controls button is being dragged
    hasDragged,             \* controls.js: the pointer moved during the drag
    panelShown,             \* the controls panel has the class 'show'
    containerPosition,      \* left and top of the controls container
    dragOffset,             \* pointer position minus container position at mousedown
    pointer,                \* where the mouse pointer is
    mouseButton,            \* "up", "primary" or "secondary" while held, "clicking" when
                            \* a release on the Controls button is about to send its click
    pointerMoved,           \* the pointer moved since the last primary mousedown on the
                            \* Controls button ("none" before any)
    clicks,                 \* parity of the clicks on the Controls button
    updateTimeout,          \* Controls.updateTimeout: a scheduled update is pending
    timers,                 \* the milliseconds left on each pending timer of
                            \* Controls.scheduleUpdate, the one updateTimeout holds last
    run,                    \* the current run of control changes: the milliseconds since
                            \* its last change, its changes, and the calls of
                            \* projectionManager.scheduleUpdate('all') it has caused
    viewportDirty,          \* state.viewportDirty
    needsUpdate,            \* ProjectionManager.needsUpdate
    recentActivity,         \* state.lastActivity is at most a second ago
    rendered,               \* the viewports the last frame rendered
    frames,                 \* parity of the frames that passed the rate limit
    rotationMode,           \* state.rotationMode
    cubeEulerAngles,        \* state.cubeEulerAngles: degrees, or undefined
    lastEvent,              \* the handler of the rotation controls that ran last
    windowStates,           \* state.windowStates, by view
    windowTimers,           \* the pending timers of WindowManager.toggleWindow
    windowEvent,            \* what the window manager did last
    views                   \* the size of each view's renderer and the aspect of its camera

vars == <<viewpointPosition, hemisphereRadius, cubeLocalRotation, cubeMatrix, showRedRays,
          linearProjectionShape, cachedWorldVertices, lastCubeMatrixWorld, lastUpdateHash,
          groups, boundaries, linear, hemi, thrown, hemispherePosition, changes, updates,
          kernelIn, kernelOut, sliderValue, numberValue, lastInput, isDragging, hasDragged,
          panelShown, containerPosition, dragOffset, pointer, mouseButton, pointerMoved,
          clicks, updateTimeout, timers, run,
          viewportDirty, needsUpdate, recentActivity, rendered, frames,
          rotationMode, cubeEulerAngles, lastEvent,
          windowStates, windowTimers, windowEvent, views>>

inputVars == <<viewpointPosition, hemisphereRadius, cubeLocalRotation, cubeMatrix, showRedRays,
               linearProjectionShape>>

outputVars == <<cachedWorldVertices, lastCubeMatrixWorld, lastUpdateHash, groups, boundaries,
                linear, hemi, thrown>>

kernelVars == <<kernelIn, kernelOut>>

fieldVars == <<sliderValue, numberValue, lastInput>>

panelVars == <<isDragging, hasDragged, panelShown, containerPosition, dragOffset, pointer,
               mouseButton, pointerMoved, clicks>>

frameVars == <<viewportDirty, needsUpdate, recentActivity, rendered, frames>>

debounceVars == <<updateTimeout, timers, run>>

interfaceVars == <<fieldVars, panelVars, debounceVars, frameVars>>

modeVars == <<rotationMode, cubeEulerAngles, lastEvent>>

windowVars == <<windowStates, windowTimers, windowEvent, views>>

\* createHemisphere(radius, position): the position of the new mesh
createHemisphere(radius, position) == position

\* recreateHemisphere: the old mesh is removed and state.hemisphere is a new
\* one made for the state's radius and viewpoint
recreateHemisphere(radius, position) == createHemisphere(radius, position)

\* values the controls are moved to
ViewpointValues(axis) ==
    CASE axis = "x" -> {0, 2}
      [] axis = "y" -> {0, 2}
      [] axis = "z" -> {5, 8}

Radii == {1, 6}

SliderAngles == {0, 37, 90}

EmptyGroups ==
    [projectionLines |-> <<>>, projectedCubeLines |-> <<>>, vanishingPoints |-> <<>>,
     extensionLines |-> <<>>]

NoBoundary == [shape |-> "none", radius |-> I(0)]

\* what the constructors leave before the first update
OutputsInit ==
    /\ cachedWorldVertices = NoVertices
    /\ lastCubeMatrixWorld = [rot |-> Identity3, pos |-> IV3(0, 0, 0)]
    /\ lastUpdateHash = <<>>
    /\ groups = [linear2D |-> EmptyGroups, hemi2D |-> EmptyGroups, master3D |-> EmptyGroups]
    /\ boundaries =
           [linear2D |-> <<[shape |-> "square", radius |-> I(hemisphereRadius)]>>,
            linearBoundary |-> [shape |-> "square", radius |-> I(hemisphereRadius)],
            hemi2D |-> <<createHemi2DBoundary(hemisphereRadius)>>,
            hemiBoundary |-> createHemi2DBoundary(hemisphereRadius)]
    /\ linear = [projectedVertices |-> <<>>, vanishingPoints |-> <<>>]
    /\ hemi = [projectedVertices |-> <<>>, vanishingPoints |-> <<>>]
    /\ thrown = FALSE

KernelNoCall == [kind |-> "none"]
KernelNoResult == [fn |-> "none"]

KernelIdle == kernelIn = KernelNoCall /\ kernelOut = KernelNoResult

\* the controls that setupSliderControl binds to a state parameter
SliderControls == {"viewpointX", "viewpointY", "viewpointZ", "hemisphereRadius"}

\* index.html: the value attributes of the range and number inputs
InitialFieldValue ==
    [viewpointX |-> I(0), viewpointY |-> I(0), viewpointZ |-> I(5), hemisphereRadius |-> I(5)]

NoInput == [field |-> "none"]

Viewports == {"linear3D", "linear2D", "hemi3D", "hemi2D"}

\* the browser window and the controls container, in pixels
Window == [width |-> 240, height |-> 160]
ContainerSize == [width |-> 100, height |-> 40]

\* #controls-container { top: 20px; right: 20px }
DefaultMargin == 20

DefaultPosition ==
    [left |-> Window.width - DefaultMargin - ContainerSize.width, top |-> DefaultMargin]

\* the page as loaded and the objects as constructed
InterfaceInit ==
    /\ sliderValue = InitialFieldValue
    /\ numberValue = InitialFieldValue
    /\ lastInput = NoInput
    /\ isDragging = FALSE
    /\ hasDragged = FALSE
    /\ panelShown = FALSE
    /\ containerPosition = DefaultPosition
    /\ dragOffset = [x |-> 0, y |-> 0]
    /\ pointer = [x |-> 130, y |-> 30]
    /\ mouseButton = "up"
    /\ pointerMoved = "none"
    /\ clicks = 0
    /\ updateTimeout = FALSE
    /\ timers = <<>>
    /\ run = [since |-> 0, length |-> 0, calls |-> 0]
    /\ viewportDirty = [id \in Viewports |-> TRUE]
    /\ needsUpdate = [linear |-> TRUE, hemi |-> TRUE, render |-> TRUE]
    /\ recentActivity = TRUE
    /\ rendered = {}
    /\ frames = 0

\* config.DEFAULTS has neither rotationMode nor cubeEulerAngles: the angles
\* start undefined, and the mode is 'local' once setupModeToggle has called
\* switchToMode(state.rotationMode)
ModeInit ==
    /\ rotationMode = "local"
    /\ cubeEulerAngles = [alpha |-> undefined, beta |-> undefined, gamma |-> undefined]
    /\ lastEvent = "none"

\* the client size of a view's element while its window is shown
ViewSize == [width |-> 120, height |-> 80]

\* viewElement.clientWidth and clientHeight: zero while the window has
\* display 'none'
ClientSize(shown, id) ==
    IF shown[id] THEN ViewSize ELSE [width |-> 0, height |-> 0]

\* viewElement.clientWidth / viewElement.clientHeight
Aspect(size) ==
    IF size.height # 0 THEN Q(size.width, size.height)
    ELSE IF size.width = 0 THEN NaN ELSE Infinity

\* state.windowStates as declared, and the renderers and cameras as
\* setupScenes makes them
WindowInit ==
    /\ windowStates = [id \in Viewports |-> TRUE]
    /\ windowTimers = {}
    /\ windowEvent = [kind |-> "none"]
    /\ views = [id \in Viewports |-> [size |-> ViewSize, aspect |-> Aspect(ViewSize)]]

Init ==
    /\ viewpointPosition = IV3(0, 2, 8)
    /\ hemisphereRadius = 6
    /\ cubeLocalRotation = [x |-> 0, y |-> 0, z |-> 0]
    /\ cubeMatrix = Identity3
    /\ showRedRays = TRUE
    /\ linearProjectionShape = "circle"
    /\ OutputsInit
    /\ hemispherePosition = createHemisphere(hemisphereRadius, viewpointPosition)
    /\ InterfaceInit
    /\ ModeInit
    /\ WindowInit
    /\ changes = 0
    /\ updates = 0
    /\ KernelIdle

----------------------------------------------------------------------------
(* Controls *)

\* setTimeout(..., 8) of Controls.scheduleUpdate
debounceTimeout == 8

\* a scheduleUpdate that leaves the pending timer running
keepTimeout(pending) == pending

\* clearTimeout(this.updateTimeout): the timer updateTimeout holds, the one
\* set last, is taken out of the pending timers
clearTimeout(pending) == SubSeq(pending, 1, Len(pending) - 1)

\* Controls.scheduleUpdate: the pending timer, if any, is cleared and a new
\* one is set; the change continues the run when the last change is less
\* than the timer's delay ago
scheduleUpdate ==
    LET continues == run.length > 0 /\ run.since < debounceTimeout
    IN  /\ timers' = (IF updateTimeout THEN clearTimeout(timers) ELSE timers)
                          \o <<debounceTimeout>>
        /\ updateTimeout' = TRUE
        /\ run' = [since  |-> 0,
                   length |-> IF ~continues THEN 1
                              ELSE IF run.length < MaxChanges THEN run.length + 1
                              ELSE run.length,
                   calls  |-> IF continues THEN run.calls ELSE 0]

\* the viewpoint sliders
SetViewpoint(axis, value) ==
    /\ changes < MaxChanges
    /\ viewpointPosition[axis] # I(value)
    /\ viewpointPosition' = [viewpointPosition EXCEPT ![axis] = I(value)]
    /\ changes' = changes + 1
    /\ UNCHANGED <<hemisphereRadius, cubeLocalRotation, cubeMatrix, showRedRays,
                   linearProjectionShape>>
    /\ UNCHANGED outputVars
    /\ UNCHANGED hemispherePosition
    /\ scheduleUpdate
    /\ UNCHANGED <<fieldVars, panelVars, frameVars>>
    /\ UNCHANGED updates
    /\ UNCHANGED modeVars
    /\ UNCHANGED windowVars
    /\ UNCHANGED kernelVars

\* the radius slider: the hemisphere is recreated for the new radius
SetHemisphereRadius(value) ==
    /\ changes < MaxChanges
    /\ hemisphereRadius # value
    /\ hemisphereRadius' = value
    /\ changes' = changes + 1
    /\ UNCHANGED <<viewpointPosition, cubeLocalRotation, cubeMatrix, showRedRays,
                   linearProjectionShape>>
    /\ UNCHANGED outputVars
    /\ hemispherePosition' = recreateHemisphere(value, viewpointPosition)
    /\ scheduleUpdate
    /\ UNCHANGED <<fieldVars, panelVars, frameVars>>
    /\ UNCHANGED updates
    /\ UNCHANGED modeVars
    /\ UNCHANGED windowVars
    /\ UNCHANGED kernelVars

AxisIndex(axis) == CASE axis = "x" -> 0 [] axis = "y" -> 1 [] axis = "z" -> 2

\* a handler that does not look at the rotation mode
ignoreRotationMode == TRUE

isLocalRotationMode == rotationMode = "local"

isPreciseOrientationMode == rotationMode = "precise"

\* a rotation slider: nothing in precise mode; in local mode the cube turns
\* about its own axis by the difference to the slider's last value
handleRotationChange(axis, newRotation) ==
    LET delta == newRotation - cubeLocalRotation[axis]
    IN  /\ lastEvent' = "rotation slider"
        /\ UNCHANGED <<rotationMode, cubeEulerAngles>>
        /\ UNCHANGED windowVars
        /\ UNCHANGED kernelVars
        /\ IF ~isLocalRotationMode
           THEN UNCHANGED <<inputVars, outputVars, hemispherePosition, interfaceVars, changes,
                            updates>>
           ELSE /\ changes < MaxChanges
                /\ delta # 0
                /\ IsExactOrientation(rotateOnAxis(cubeMatrix, AxisIndex(axis), delta))
                /\ cubeLocalRotation' = [cubeLocalRotation EXCEPT ![axis] = newRotation]
                /\ cubeMatrix' = rotateOnAxis(cubeMatrix, AxisIndex(axis), delta)
                /\ changes' = changes + 1
                /\ UNCHANGED <<viewpointPosition, hemisphereRadius, showRedRays,
                               linearProjectionShape>>
                /\ UNCHANGED outputVars
                /\ UNCHANGED hemispherePosition
                /\ scheduleUpdate
                /\ UNCHANGED <<fieldVars, panelVars, frameVars>>
                /\ UNCHANGED updates

\* the red rays checkbox
ToggleRedRays ==
    /\ changes < MaxChanges
    /\ showRedRays' = ~showRedRays
    /\ changes' = changes + 1
    /\ UNCHANGED <<viewpointPosition, hemisphereRadius, cubeLocalRotation, cubeMatrix,
                   linearProjectionShape>>
    /\ UNCHANGED outputVars
    /\ UNCHANGED hemispherePosition
    /\ scheduleUpdate
    /\ UNCHANGED <<fieldVars, panelVars, frameVars>>
    /\ UNCHANGED updates
    /\ UNCHANGED modeVars
    /\ UNCHANGED windowVars
    /\ UNCHANGED kernelVars

\* the linear shape checkbox
ToggleLinearShape ==
    /\ changes < MaxChanges
    /\ linearProjectionShape' = IF linearProjectionShape = "circle" THEN "square" ELSE "circle"
    /\ changes' = changes + 1
    /\ UNCHANGED <<viewpointPosition, hemisphereRadius, cubeLocalRotation, cubeMatrix,
                   showRedRays>>
    /\ UNCHANGED outputVars
    /\ UNCHANGED hemispherePosition
    /\ scheduleUpdate
    /\ UNCHANGED <<fieldVars, panelVars, frameVars>>
    /\ UNCHANGED updates
    /\ UNCHANGED modeVars
    /\ UNCHANGED windowVars
    /\ UNCHANGED kernelVars

----------------------------------------------------------------------------
(* The projection update *)

generateUpdateHash ==
    LET rotationData ==
            IF rotationMode = "local"
            THEN <<I(cubeLocalRotation.x), I(cubeLocalRotation.y), I(cubeLocalRotation.z)>>
            ELSE <<cubeEulerAngles.alpha, cubeEulerAngles.beta, cubeEulerAngles.gamma>>
    IN  <<viewpointPosition, hemisphereRadius, rotationData, rotationMode, showRedRays,
          linearProjectionShape>>

\* scene.remove(object)
RemoveFromScene(scene, object) == SelectSeq(scene, LAMBDA o : o # object)

\* updateLinearProjection: the cache, the scene boundary, the groups of the
\* linear 2D view and the red rays after the call
updateLinearProjection(cache, lastMw, g, scene, boundary, projectionLines) ==
    LET c == getCachedWorldVertices(cache, lastMw, matrixWorld(cubeMatrix))
        worldVertices == c.vertices
        projectedVertices ==
            LinearProjectedVertices(worldVertices, viewpointPosition, hemisphereRadius)
        vanishingPoints ==
            LinearVanishingPoints(worldVertices, viewpointPosition, hemisphereRadius)
        removed == IF boundary # NoBoundary THEN RemoveFromScene(scene, boundary) ELSE scene
        linearBoundary == createLinear2DBoundary(I(hemisphereRadius), linearProjectionShape)
    IN  [cache |-> c.vertices,
         last |-> c.last,
         scene |-> Append(removed, linearBoundary),
         boundary |-> linearBoundary,
         groups |->
             [projectionLines |-> clearGroup(g.projectionLines),
              projectedCubeLines |->
                  clearGroup(g.projectedCubeLines) \o LinearEdgeLines(projectedVertices),
              vanishingPoints |->
                  clearGroup(g.vanishingPoints) \o LinearVPMarkers(vanishingPoints),
              extensionLines |->
                  clearGroup(g.extensionLines)
                      \o LinearGuideLines(projectedVertices, vanishingPoints)],
         projectionLines |->
             projectionLines \o RedRays(worldVertices, viewpointPosition, showRedRays),
         result |-> [projectedVertices |-> projectedVertices,
                     vanishingPoints |-> vanishingPoints]]

\* updateHemisphericalProjection, likewise
updateHemisphericalProjection(cache, lastMw, g, scene, boundary, projectionLines) ==
    LET c == getCachedWorldVertices(cache, lastMw, matrixWorld(cubeMatrix))
        worldVertices == c.vertices
        boundaryRadius == boundaryRadiusOf(hemisphereRadius)
        projectedVertices == HemiProjectedVertices(worldVertices, viewpointPosition)
        vanishingPoints == HemiVanishingPoints(worldVertices, hemisphereRadius)
        removed == IF boundary # NoBoundary THEN RemoveFromScene(scene, boundary) ELSE scene
        hemiBoundary == createHemi2DBoundary(hemisphereRadius)
        guides == Array3(LAMBDA a :
                      HemiAxisGuides(projectedVertices, vanishingPoints, boundaryRadius, a))
    IN  [cache |-> c.vertices,
         last |-> c.last,
         scene |-> Append(removed, hemiBoundary),
         boundary |-> hemiBoundary,
         groups |->
             [projectionLines |-> clearGroup(g.projectionLines),
              projectedCubeLines |->
                  clearGroup(g.projectedCubeLines)
                      \o HemiEdgeLines(projectedVertices, vanishingPoints, boundaryRadius),
              vanishingPoints |->
                  clearGroup(g.vanishingPoints) \o HemiVPMarkers(vanishingPoints),
              extensionLines |->
                  clearGroup(g.extensionLines)
                      \o HemiDegenerateArcs(projectedVertices, vanishingPoints, boundaryRadius, 1)
                      \o HemiDegenerateArcs(projectedVertices, vanishingPoints, boundaryRadius, 2)
                      \o HemiDegenerateArcs(projectedVertices, vanishingPoints, boundaryRadius, 3)
                      \o guides[1].lines \o guides[2].lines \o guides[3].lines
                      \o guides[1].special \o guides[2].special \o guides[3].special],
         projectionLines |->
             projectionLines \o HemiRedRays(worldVertices, viewpointPosition, showRedRays),
         thrown |-> \E a \in 1 .. 3 : guides[a].thrown,
         hemispherePosition |-> viewpointPosition,
         cubeMatrix |-> autoFixMatrix(cubeMatrix, cubeLocalRotation),
         result |-> [projectedVertices |-> projectedVertices,
                     vanishingPoints |-> vanishingPoints]]

\* ProjectionManager.updateProjections: nothing when the hash is the one of
\* the last update; else the shared red rays are cleared and both
\* projections are redone
UpdateProjections ==
    /\ generateUpdateHash # lastUpdateHash
    /\ \E lin \in {updateLinearProjection(cachedWorldVertices, lastCubeMatrixWorld,
                      groups.linear2D, boundaries.linear2D, boundaries.linearBoundary,
                      clearGroup(groups.master3D.projectionLines))} :
       \E hem \in {updateHemisphericalProjection(lin.cache, lin.last,
                      groups.hemi2D, boundaries.hemi2D, boundaries.hemiBoundary,
                      lin.projectionLines)} :
           /\ lastUpdateHash' = generateUpdateHash
           /\ cachedWorldVertices' = hem.cache
           /\ lastCubeMatrixWorld' = hem.last
           /\ groups' = [linear2D |-> lin.groups,
                         hemi2D |-> hem.groups,
                         master3D |-> [groups.master3D EXCEPT
                                          !.projectionLines = hem.projectionLines]]
           /\ boundaries' = [linear2D |-> lin.scene, linearBoundary |-> lin.boundary,
                             hemi2D |-> hem.scene, hemiBoundary |-> hem.boundary]
           /\ linear' = lin.result
           /\ hemi' = hem.result
           /\ thrown' = (thrown \/ hem.thrown)
           /\ hemispherePosition' = hem.hemispherePosition
           /\ cubeMatrix' = hem.cubeMatrix
    /\ needsUpdate' = [needsUpdate EXCEPT !.linear = FALSE, !.hemi = FALSE]
    /\ updates' = updates + 1
    /\ UNCHANGED <<viewpointPosition, hemisphereRadius, cubeLocalRotation, showRedRays,
                   linearProjectionShape>>
    /\ UNCHANGED <<fieldVars, panelVars, debounceVars, viewportDirty, recentActivity,
                   rendered, frames>>
    /\ UNCHANGED changes
    /\ UNCHANGED modeVars
    /\ UNCHANGED windowVars
    /\ UNCHANGED kernelVars

Next ==
    \/ \E axis \in {"x", "y", "z"} : \E value \in ViewpointValues(axis) :
           SetViewpoint(axis, value)
    \/ \E value \in Radii : SetHemisphereRadius(value)
    \/ \E axis \in {"x", "y", "z"} : \E value \in SliderAngles :
           handleRotationChange(axis, value)
    \/ ToggleRedRays
    \/ ToggleLinearShape
    \/ UpdateProjections

Spec == Init /\ [][Next]_vars

----------------------------------------------------------------------------
(* The update as a function of its inputs: any viewpoint, radius and      *)
(* orientation, among them viewpoints in the plane of a cube face, which  *)
(* the sliders do not offer.                                              *)

ProjectViewpoints == {IV3(x, y, z) : x \in {0, 2}, y \in {0, 2}, z \in {-7, -3, 5, 8}}

ProjectRadii == {1, 6, 15}

ProjectAngles == {-37, 0, 37, 90}

InitProject ==
    /\ viewpointPosition \in ProjectViewpoints
    /\ hemisphereRadius \in ProjectRadii
    /\ \E axis \in {"x", "y", "z"} : \E angle \in ProjectAngles :
           /\ cubeLocalRotation = [[x |-> 0, y |-> 0, z |-> 0] EXCEPT ![axis] = angle]
           /\ cubeMatrix = rotateOnAxis(Identity3, AxisIndex(axis), angle)
    /\ showRedRays \in BOOLEAN
    /\ linearProjectionShape = "circle"
    /\ OutputsInit
    /\ hemispherePosition = createHemisphere(hemisphereRadius, viewpointPosition)
    /\ InterfaceInit
    /\ ModeInit
    /\ WindowInit
    /\ changes = 0
    /\ updates = 0
    /\ KernelIdle

NextProject == UpdateProjections

SpecProject == InitProject /\ [][NextProject]_vars

\* the outputs are those of the current inputs
UpToDate == updates > 0 /\ lastUpdateHash = generateUpdateHash

worldVertex(i) == applyMatrix4(localVertices[i], matrixWorld(cubeMatrix))

----------------------------------------------------------------------------
(* The geometry kernel as functions of their arguments.  A call takes     *)
(* three points of a small grid, scaled to a small, a unit or a large     *)
(* triangle, or a vanishing point at a given fraction of the boundary     *)
(* radius of a hemisphere radius the slider offers.                       *)

Dot3(a, b) == RAdd(RAdd(RMul(a.x, b.x), RMul(a.y, b.y)), RMul(a.z, b.z))

Scale3(v, t) == V3(RMul(v.x, t), RMul(v.y, t), RMul(v.z, t))

NoIntersection == [found |-> FALSE]

\* the two roots t1, t2 of the ray parameter, or none
RayParameters(rayOrigin, rayDirection, hemisphereCenter, R) ==
    LET oc == Sub3(rayOrigin, hemisphereCenter)
        a == Dot3(rayDirection, rayDirection)
        b == RMul(I(2), Dot3(oc, rayDirection))
        c == RSub(Dot3(oc, oc), I(R * R))
        discriminant == RSub(RSq(b), RMul(I(4), RMul(a, c)))
    IN  IF RLt(discriminant, I(0)) THEN <<>>
        ELSE <<RDiv(RSub(RNeg(b), Sqrt(discriminant)), RMul(I(2), a)),
               RDiv(RAdd(RNeg(b), Sqrt(discriminant)), RMul(I(2), a))>>

\* validIntersections.sort((a, b) => a.t - b.t): at most two entries
SortByT(valid) ==
    IF Len(valid) = 2 /\ RLt(valid[2].t, valid[1].t) THEN <<valid[2], valid[1]>> ELSE valid

\* a version that returns the first root above 0.001, in the order t1, t2,
\* whose point is not above the centre: the front half of the sphere only
intersectRayWithFrontHemisphere(rayOrigin, rayDirection, hemisphereCenter, R) ==
    LET ts == RayParameters(rayOrigin, rayDirection, hemisphereCenter, R)
        hits == [i \in 1 .. Len(ts) |->
                    [t |-> ts[i], point |-> Add3(rayOrigin, Scale3(rayDirection, ts[i]))]]
        front == SelectSeq(hits, LAMBDA h :
                     RLt(Q(1, 1000), h.t) /\ RLe(h.point.z, hemisphereCenter.z))
    IN  IF Len(front) = 0 THEN NoIntersection
        ELSE [found |-> TRUE, point |-> front[1].point]

\* intersectRayWithHemisphere: the nearest point of the sphere along the ray
intersectRayWithHemisphere(rayOrigin, rayDirection, hemisphereCenter, R) ==
    LET ts == RayParameters(rayOrigin, rayDirection, hemisphereCenter, R)
        hits == [i \in 1 .. Len(ts) |->
                    [t |-> ts[i], point |-> Add3(rayOrigin, Scale3(rayDirection, ts[i]))]]
        validIntersections == SelectSeq(hits, LAMBDA h : RLt(Q(1, 1000), h.t))
    IN  IF Len(validIntersections) = 0 THEN NoIntersection
        ELSE [found |-> TRUE, point |-> SortByT(validIntersections)[1].point]

\* ray origins on and beside the z axis
RayOrigins == {IV3(x, 0, z) : x \in {0, 3, 5, 6}, z \in {-8, 0, 5, 8}}

RayDirections == {IV3(0, 0, 1), IV3(0, 0, -1), IV3(0, 0, 2), IV3(1, 0, 0)}

\* origins of oblique rays through the centre
ObliqueOrigins == {IV3(6, 0, -8), IV3(3, 0, -4), IV3(0, 0, 0), IV3(-6, 0, 8)}

RayRadii == {1, 5}

\* origins on the z axis 1/2000 outside and inside the sphere of radius 5,
\* with rays along the axis
NearSurfaceOrigins == {V3(I(0), I(0), z) : z \in {Q(-10001, 2000), Q(-9999, 2000)}}

RayInputs ==
    {[kind |-> "ray", rayOrigin |-> o, rayDirection |-> d,
      hemisphereCenter |-> IV3(0, 0, 0), R |-> R] :
        o \in RayOrigins, d \in RayDirections, R \in RayRadii}
    \cup
    {[kind |-> "ray", rayOrigin |-> o, rayDirection |-> d,
      hemisphereCenter |-> IV3(0, 0, 0), R |-> 5] :
        o \in NearSurfaceOrigins, d \in {IV3(0, 0, 1), IV3(0, 0, -1)}}
    \cup
    {[kind |-> "ray", rayOrigin |-> o, rayDirection |-> IV3(-3, 0, 4),
      hemisphereCenter |-> IV3(0, 0, 0), R |-> R] :
        o \in ObliqueOrigins, R \in RayRadii}

\* edge directions that are parallel or nearly parallel to the image plane
DirectionInputs ==
    {[kind |-> "dir", dir |-> V3(I(4), I(0), dz), vp |-> IV3(0, 2, 8), R |-> 1] :
        dz \in {I(0), Q(1, 20000), Q(1, 5000), I(4)}}

\* the grid coordinates run from -GridMax to GridMax
GridMax == 1

GridPoints == {IV2(x, y) : x \in -GridMax .. GridMax, y \in -GridMax .. GridMax}

Scales == {Q(1, 50), I(1), I(128)}

Scaled(p, s) == V2(RMul(p.x, s), RMul(p.y, s))

\* a right triangle with legs of 1/20000
TinyTriangle == <<IV2(0, 0), V2(Q(1, 20000), I(0)), V2(I(0), Q(1, 20000))>>

PointInputs ==
    {[kind |-> "points", p1 |-> Scaled(p, s), p2 |-> Scaled(q, s), p3 |-> Scaled(r, s)] :
        p \in GridPoints, q \in GridPoints, r \in GridPoints, s \in Scales}
    \cup
    {[kind |-> "points", p1 |-> TinyTriangle[o[1]], p2 |-> TinyTriangle[o[2]],
      p3 |-> TinyTriangle[o[3]]] :
        o \in {<<1, 2, 3>>, <<1, 3, 2>>, <<2, 1, 3>>, <<2, 3, 1>>, <<3, 1, 2>>, <<3, 2, 1>>}}

SliderRadii == 1 .. 15

BoundaryFactors == {Q(49, 50), Q(199, 200), I(1), Q(201, 200), Q(51, 50)}

UnitDirections == {IV2(1, 0), IV2(0, 1), IV2(-1, 0), IV2(0, -1)}

VanishingPointInputs ==
    {[kind |-> "vp", R |-> R, factor |-> f,
      vp |-> Scaled(u, RMul(f, boundaryRadiusOf(R)))] :
        R \in SliderRadii, f \in BoundaryFactors, u \in UnitDirections}

\* intersectLines(p, q, r, s): the crossing of the segments pq and rs
intersectLines(p, q, r, s) ==
    LET denominator == RSub(RMul(RSub(q.x, p.x), RSub(s.y, r.y)),
                            RMul(RSub(q.y, p.y), RSub(s.x, r.x)))
    IN  IF BelowOneIn(RAbs(denominator), 1000) THEN Null
        ELSE LET t == RDiv(RSub(RMul(RSub(r.x, p.x), RSub(s.y, r.y)),
                                RMul(RSub(r.y, p.y), RSub(s.x, r.x))), denominator)
                 u == RDiv(RSub(RMul(RSub(q.x, p.x), RSub(r.y, p.y)),
                                RMul(RSub(q.y, p.y), RSub(r.x, p.x))), denominator)
             IN  IF RLe(I(0), t) /\ RLe(t, I(1)) /\ RLe(I(0), u) /\ RLe(u, I(1))
                 THEN V2(RAdd(p.x, RMul(t, RSub(q.x, p.x))),
                         RAdd(p.y, RMul(t, RSub(q.y, p.y))))
                 ELSE Null

\* intersectArcsOrLines for two arcs of type 'line'
intersectArcsOrLines(arc1, arc2) ==
    LET intersection == intersectLines(arc1.p1, arc1.p2, arc2.p1, arc2.p2)
    IN  IF intersection # Null THEN <<intersection>> ELSE <<>>

\* a selection that takes the first candidate
selectFirstIntersection(intersections, boundaryRadius) ==
    IF Len(intersections) = 0 THEN Null ELSE intersections[1]

\* the loop of selectCorrectIntersection from candidate i on
RECURSIVE SelectFrom(_, _, _, _, _)
SelectFrom(intersections, boundaryRadius, i, bestIntersection, minDistance) ==
    IF i > Len(intersections) THEN bestIntersection
    ELSE LET distance == calculateDistance(intersections[i])
         IN  IF RLe(distance, boundaryRadius) /\ RLt(distance, minDistance)
             THEN SelectFrom(intersections, boundaryRadius, i + 1, intersections[i], distance)
             ELSE SelectFrom(intersections, boundaryRadius, i + 1, bestIntersection,
                             minDistance)

selectCorrectIntersection(intersections, boundaryRadius) ==
    IF Len(intersections) = 0 THEN Null
    ELSE IF Len(intersections) = 1 THEN intersections[1]
    ELSE SelectFrom(intersections, boundaryRadius, 1, Null, Infinity)

\* candidates as intersectCircles and intersectCircleLine return them: none
\* or two points, here inside, on and outside the boundary circle of R = 1
CandidatePoints ==
    {IV2(1, 0), IV2(0, -1), IV2(1, 1), IV2(-1, -1), IV2(2, 0), IV2(0, 3), IV2(-2, 2),
     V2(boundaryRadiusOf(1), I(0)), V2(I(0), Q(1, 2))}

CandidateInputs ==
    {[kind |-> "candidates", intersections |-> <<a, b>>, boundaryRadius |-> boundaryRadiusOf(1)] :
        a \in CandidatePoints, b \in CandidatePoints}
    \cup {[kind |-> "candidates", intersections |-> <<>>,
           boundaryRadius |-> boundaryRadiusOf(1)]}

\* the two arcs where both are straight: p_theta and p_phi within a
\* two-hundredth of the centre of a boundary circle of radius 1/10
StraightArcInputs ==
    {[kind |-> "lines",
      arc1 |-> [type |-> "line", p1 |-> V2(I(0), t), p2 |-> V2(Q(-1, 10), I(0))],
      arc2 |-> [type |-> "line", p1 |-> V2(u, I(0)), p2 |-> V2(I(0), Q(-1, 10))],
      boundaryRadius |-> Q(1, 10)] :
        t \in {Q(-1, 200), Q(1, 200)}, u \in {Q(-1, 200), Q(1, 200)}}

\* the edges of an axis whose vanishing points are (11, 0) and (-11, 0) on the
\* boundary circle of R = 7.  The two vertices of such an edge have the angle
\* theta in common and are crossings of the one circle through p_theta, X1 and
\* X2: here the circle through (0, 11/3) or (0, -11/3), and the line y = 0 of
\* theta = 0.
DegenerateEdgeVertices ==
    {{V2(Q(77, 15), Q(44, 15)), V2(Q(-77, 15), Q(44, 15)), V2(I(0), Q(11, 3))},
     {V2(Q(77, 15), Q(-44, 15)), V2(Q(-77, 15), Q(-44, 15)), V2(I(0), Q(-11, 3))},
     {IV2(2, 0), IV2(-3, 0), IV2(5, 0)}}

\* the same edges for the axis with vanishing points (0, 11) and (0, -11)
Transposed(p) == V2(p.y, p.x)

DegenerateEdgeInputs ==
    {[kind |-> "edge", vertex1 |-> v[1], vertex2 |-> v[2], insideVP |-> vp,
      hemisphereRadius |-> 7] :
        v \in UNION {{<<a, b>>, <<Transposed(a), Transposed(b)>>} :
                        <<a, b>> \in UNION {{<<c, d>> \in vs \X vs : c # d} :
                                                vs \in DegenerateEdgeVertices}},
        vp \in {IV2(11, 0), IV2(-11, 0), IV2(0, 11), IV2(0, -11)}}

DegenerateEdges ==
    {e \in DegenerateEdgeInputs :
        (e.insideVP.y = I(0)) = (\E vs \in DegenerateEdgeVertices : e.vertex1 \in vs)}

\* an axis in the plane y = 0 a hundredth of a radian off the image plane:
\* theta = 0 and phi = 1.56, so that the inside vanishing point is p_phi,
\* within 1% of the boundary circle; the vertices are those of theta = 0
NearlyDegenerateEdges ==
    {[kind |-> "edge", vertex1 |-> IV2(v[1], 0), vertex2 |-> IV2(v[2], 0),
      insideVP |-> V2(RMul(I(7), phi), I(0)), hemisphereRadius |-> 7] :
        v \in {<<2, -3>>, <<-3, 2>>, <<5, 2>>}, phi \in {Q(39, 25), Q(-39, 25)}}

\* a % n for a positive integer n: the remainder has the sign of a
Remainder(a, n) ==
    IF ~isFinite(a) THEN NaN
    ELSE RSub(a, I(n * Sgn(a[1]) * (Abs(a[1]) \div (a[2] * n))))

\* ((angle + 180) % 360) - 180
NormalizeAngle(angle) ==
    LET r == Remainder(RAdd(angle, I(180)), 360)
    IN  IF r = NaN THEN NaN ELSE RSub(r, I(180))

validateEulerAngles(alpha, beta, gamma) ==
    [alpha |-> NormalizeAngle(IF isNaN(alpha) THEN I(0) ELSE alpha),
     beta |-> NormalizeAngle(IF isNaN(beta) THEN I(0) ELSE beta),
     gamma |-> NormalizeAngle(IF isNaN(gamma) THEN I(0) ELSE gamma)]

\* angles in degrees, among them those of testEulerRotations, and values
\* that are not numbers
EulerValues == {I(370), I(-200), I(540), I(-180), I(90), Q(-725, 2), NaN, undefined}

EulerInputs ==
    {[kind |-> "euler", alpha |-> a, beta |-> b, gamma |-> c] :
        a \in EulerValues, b \in {I(-200), I(0), undefined}, c \in {I(540), NaN}}

\* angles of getAngle, an eighth of a turn apart from 0 on
ArcAngles ==
    {IV2(1, 0), IV2(1, 1), IV2(0, 1), IV2(-1, 1), IV2(-1, 0), IV2(-1, -1), IV2(0, -1),
     IV2(1, -1)}

AngleInputs ==
    {[kind |-> "angles", angles |-> <<a, b, c>>] : a \in ArcAngles, b \in ArcAngles,
                                                  c \in ArcAngles}

InitKernel ==
    /\ viewpointPosition = IV3(0, 2, 8)
    /\ hemisphereRadius = 6
    /\ cubeLocalRotation = [x |-> 0, y |-> 0, z |-> 0]
    /\ cubeMatrix = Identity3
    /\ showRedRays = TRUE
    /\ linearProjectionShape = "circle"
    /\ OutputsInit
    /\ hemispherePosition = createHemisphere(hemisphereRadius, viewpointPosition)
    /\ InterfaceInit
    /\ ModeInit
    /\ WindowInit
    /\ changes = 0
    /\ updates = 0
    /\ kernelIn \in PointInputs \cup VanishingPointInputs \cup RayInputs \cup DirectionInputs
                      \cup AngleInputs \cup CandidateInputs \cup StraightArcInputs
                      \cup DegenerateEdges \cup NearlyDegenerateEdges \cup EulerInputs
    /\ kernelOut = KernelNoResult

Return(fn, result) ==
    /\ kernelOut' = [fn |-> fn, result |-> result]
    /\ UNCHANGED <<inputVars, outputVars, hemispherePosition, interfaceVars, modeVars,
                   windowVars, changes, updates, kernelIn>>

CallFindCircle ==
    /\ kernelIn.kind = "points"
    /\ Return("findCircle", findCircle(kernelIn.p1, kernelIn.p2, kernelIn.p3))

CallComputeCircleFromThreePoints ==
    /\ kernelIn.kind = "points"
    /\ Return("computeCircleFromThreePoints",
              computeCircleFromThreePoints(kernelIn.p1, kernelIn.p2, kernelIn.p3))

\* createArcWithEndpoints(startPoint = p1, endPoint = p2, middlePoint = p3)
CallCreateArcWithEndpoints ==
    /\ kernelIn.kind = "points"
    /\ Return("createArcWithEndpoints",
              createArcWithEndpoints(kernelIn.p1, kernelIn.p2, kernelIn.p3))

CallCreateArc ==
    /\ kernelIn.kind = "points"
    /\ Return("createArc", createArc(kernelIn.p1, kernelIn.p2, kernelIn.p3))

\* createEdgeArc(vertex1 = p1, vertex2 = p2, vanishingPoint = p3)
CallCreateEdgeArc ==
    /\ kernelIn.kind = "points"
    /\ Return("createEdgeArc", createEdgeArc(kernelIn.p1, kernelIn.p2, kernelIn.p3))

\* the boundary test of a vanishing point for the hemisphere radius R
ClassifyVanishingPoint ==
    /\ kernelIn.kind = "vp"
    /\ Return("isOnBoundary",
              IsOnBoundary(calculateDistance(kernelIn.vp), boundaryRadiusOf(kernelIn.R)))

CallIntersectRayWithHemisphere ==
    /\ kernelIn.kind = "ray"
    /\ Return("intersectRayWithHemisphere",
              intersectRayWithHemisphere(kernelIn.rayOrigin, kernelIn.rayDirection,
                                         kernelIn.hemisphereCenter, kernelIn.R))

\* the vanishing point of an edge direction in the linear projection
CallLinearVanishingPoint ==
    /\ kernelIn.kind = "dir"
    /\ Return("LinearVanishingPoint",
              LinearVanishingPoint(kernelIn.dir, kernelIn.vp, kernelIn.R))

CallDetermineArcParameters ==
    /\ kernelIn.kind = "angles"
    /\ Return("determineArcParameters", determineArcParameters(kernelIn.angles))

\* the choice among the candidates, with the candidates it was made from
CallSelectCorrectIntersection ==
    /\ kernelIn.kind \in {"candidates", "lines"}
    /\ \E intersections \in {IF kernelIn.kind = "lines"
                               THEN intersectArcsOrLines(kernelIn.arc1, kernelIn.arc2)
                               ELSE kernelIn.intersections} :
           Return("selectCorrectIntersection",
                  [intersections |-> intersections,
                   chosen |-> selectCorrectIntersection(intersections,
                                                        kernelIn.boundaryRadius)])

\* the two arcs of an edge of an axis with both vanishing points on the
\* boundary circle: one to the inside and one to the outside vanishing point
ExtendedGuideArcs(vertex1, vertex2, insideVP, outsideVP, boundaryRadius) ==
    IF /\ IsOnBoundary(calculateDistance(insideVP), boundaryRadius)
       /\ IsOnBoundary(calculateDistance(outsideVP), boundaryRadius)
    THEN LET dist1 == DistSq2(vertex1, insideVP)
             dist2 == DistSq2(vertex2, insideVP)
             nearerVertex == IF RLe(dist1, dist2) THEN vertex1 ELSE vertex2
             fartherVertex == IF RLe(dist1, dist2) THEN vertex2 ELSE vertex1
         IN  <<createArcWithEndpoints(nearerVertex, insideVP, fartherVertex),
               createArcWithEndpoints(fartherVertex, outsideVP, nearerVertex)>>
    ELSE <<>>

\* the outside vanishing point of the axis, then the arcs of the edge
CallExtendedGuideArcs ==
    /\ kernelIn.kind = "edge"
    /\ \E boundaryRadius \in {boundaryRadiusOf(kernelIn.hemisphereRadius)} :
           Return("extendedGuideArcs",
                  [boundaryRadius |-> boundaryRadius,
                   curves |-> ExtendedGuideArcs(
                                  kernelIn.vertex1, kernelIn.vertex2, kernelIn.insideVP,
                                  HemiOutsideVP(kernelIn.insideVP, boundaryRadius),
                                  boundaryRadius)])

CallValidateEulerAngles ==
    /\ kernelIn.kind = "euler"
    /\ Return("validateEulerAngles",
              validateEulerAngles(kernelIn.alpha, kernelIn.beta, kernelIn.gamma))

NextKernel ==
    \/ CallValidateEulerAngles
    \/ CallExtendedGuideArcs
    \/ CallSelectCorrectIntersection
    \/ CallDetermineArcParameters
    \/ CallLinearVanishingPoint
    \/ CallIntersectRayWithHemisphere
    \/ CallFindCircle
    \/ CallComputeCircleFromThreePoints
    \/ CallCreateArcWithEndpoints
    \/ CallCreateArc
    \/ CallCreateEdgeArc
    \/ ClassifyVanishingPoint

SpecKernel == InitKernel /\ [][NextKernel]_vars

\* a call of fn has returned
Returned(fn) == kernelOut.fn = fn

ExactlyCollinear(p1, p2, p3) == Cross2(Sub2(p2, p1), Sub2(p3, p1)) = I(0)

\* the direction d lies on the counter-clockwise sweep from a to b
OnCCWSweep(a, d, b) ==
    \/ d = a
    \/ d = b
    \/ IF AngleLt(a, b) THEN AngleLt(a, d) /\ AngleLt(d, b)
       ELSE AngleLt(a, d) \/ AngleLt(d, b)

\* the point p lies on the sampled arc
OnSampledArc(arc, p) ==
    /\ DistSq2(p, arc.center) = arc.radiusSq
    /\ IF arc.counterClockwise
       THEN OnCCWSweep(arc.startAngle, Sub2(p, arc.center), arc.endAngle)
       ELSE OnCCWSweep(arc.endAngle, Sub2(p, arc.center), arc.startAngle)

----------------------------------------------------------------------------
(* C1: after a linear update every cube vertex whose z differs from the   *)
(* viewpoint's is drawn at (vx - px, vy - py) * (planeZ - pz) / (vz - pz) *)
(* with planeZ = pz - R, measured from the viewpoint's own image, and a   *)
(* vertex with the viewpoint's z is the undefined point.                  *)

LinearVertexLaw ==
    UpToDate =>
        \A i \in 1 .. 8 :
            LET v == worldVertex(i)
                p == viewpointPosition
                planeZ == RSub(p.z, I(hemisphereRadius))
                scale == RDiv(RSub(planeZ, p.z), RSub(v.z, p.z))
            IN  IF v.z # p.z
                THEN linear.projectedVertices[i]
                         = V2(RMul(RSub(v.x, p.x), scale), RMul(RSub(v.y, p.y), scale))
                ELSE linear.projectedVertices[i] = InfPoint

LinearVertexWitness ==
    /\ UpToDate
    /\ viewpointPosition.x # I(0)
    /\ \E i \in 1 .. 8 : linear.projectedVertices[i] = InfPoint
    /\ \E i \in 1 .. 8 :
           /\ isFinite2(linear.projectedVertices[i])
           /\ linear.projectedVertices[i].x # I(0)
           /\ linear.projectedVertices[i].y # I(0)

----------------------------------------------------------------------------
(* C2: every projection update leaves, for each cube axis whose world     *)
(* direction has z = 0, the undefined point as the linear vanishing point *)
(* and no vanishing-point marker and no guide line of that axis in the    *)
(* linear 2D view.                                                        *)

\* the z component of the world direction of the cube's a-th axis
AxisWorldZ(a) == cubeMatrix[3][a]

OfAxis(group, a) == SelectSeq(group, LAMBDA r : r.axis = a - 1)

ParallelAxesUndefined ==
    \A a \in 1 .. 3 :
        AxisWorldZ(a) = I(0) =>
            /\ linear.vanishingPoints[a] = InfPoint
            /\ OfAxis(groups.linear2D.vanishingPoints, a) = <<>>
            /\ OfAxis(groups.linear2D.extensionLines, a) = <<>>

LinearParallelAxisUndefined == [][updates' # updates => ParallelAxesUndefined']_vars

LinearParallelAxisWitness ==
    /\ UpToDate
    /\ \E a \in 1 .. 3 : AxisWorldZ(a) = I(0)
    /\ \E a \in 1 .. 3 :
           /\ AxisWorldZ(a) # I(0)
           /\ Len(OfAxis(groups.linear2D.vanishingPoints, a)) = 1
           /\ Len(OfAxis(groups.linear2D.extensionLines, a)) = 8

----------------------------------------------------------------------------
(* C3: the circle through three points is absent when the points are      *)
(* exactly collinear, and for every other triple, however small or large, *)
(* it has a centre from which all three points lie at its radius.         *)

CircleThroughThreePoints ==
    (Returned("findCircle") \/ Returned("computeCircleFromThreePoints")) =>
        LET circle == kernelOut.result
        IN  IF ExactlyCollinear(kernelIn.p1, kernelIn.p2, kernelIn.p3)
            THEN ~circle.found
            ELSE /\ circle.found
                 /\ \A p \in {kernelIn.p1, kernelIn.p2, kernelIn.p3} :
                        DistSq2(p, circle.center) = circle.radiusSq

----------------------------------------------------------------------------
(* C4: for a triple (start, end, through) that is not collinear, the arc  *)
(* sampled by createArcWithEndpoints and by createArc begins at the start *)
(* point, ends at the end point and is the one of the two arcs between    *)
(* them that contains the through point.                                  *)

ArcContainsThroughPoint ==
    ((Returned("createArcWithEndpoints") \/ Returned("createArc"))
        /\ ~ExactlyCollinear(kernelIn.p1, kernelIn.p2, kernelIn.p3)
        /\ kernelOut.result.kind = "arc") =>
            /\ FirstPoint(kernelOut.result) = kernelIn.p1
            /\ LastPoint(kernelOut.result) = kernelIn.p2
            /\ OnSampledArc(kernelOut.result, kernelIn.p3)

----------------------------------------------------------------------------
(* C5: the polyline of createEdgeArc(v1, v2, vanishingPoint) begins at    *)
(* v1 and ends at v2; when it is an arc, its circle passes through v1, v2 *)
(* and the vanishing point; the vanishing point is not an end of it       *)
(* unless it coincides with that vertex; and for three collinear points   *)
(* it is the straight segment from v1 to v2.                              *)

EdgeArcSpansVertices ==
    Returned("createEdgeArc") =>
        LET v1 == kernelIn.p1
            v2 == kernelIn.p2
            vp == kernelIn.p3
            line == kernelOut.result
        IN  /\ FirstPoint(line) = v1
            /\ LastPoint(line) = v2
            /\ line.kind = "arc" =>
                   \A p \in {v1, v2, vp} : DistSq2(p, line.center) = line.radiusSq
            /\ vp # v1 => FirstPoint(line) # vp
            /\ vp # v2 => LastPoint(line) # vp
            /\ ExactlyCollinear(v1, vp, v2) => line = StraightLine(<<v1, v2>>)

EdgeArcWitness ==
    /\ Returned("createEdgeArc")
    /\ kernelOut.result.kind = "arc"
    /\ kernelIn.p1 = IV2(128, 0)
    /\ kernelIn.p2 = IV2(0, 128)
    /\ kernelIn.p3 = IV2(-128, -128)
    /\ kernelOut.result.counterClockwise

----------------------------------------------------------------------------
(* C6: after a hemispherical update, every axis whose inside vanishing    *)
(* point lies at a distance d # 0 from the centre has its outside         *)
(* vanishing point at distance boundaryRadius^2 / d on the opposite side  *)
(* of the centre: the distances multiply to boundaryRadius^2 and the      *)
(* centre lies on the segment between the two points.                     *)

OutsideIsInversion ==
    UpToDate =>
        \A a \in 1 .. 3 :
            LET inside == hemi.vanishingPoints[2 * a - 1]
                outside == hemi.vanishingPoints[2 * a]
                b == boundaryRadiusOf(hemisphereRadius)
                d == calculateDistance(inside)
            IN  (isFinite2(inside) /\ d # I(0)) =>
                    /\ isFinite2(outside)
                    /\ calculateDistance(outside) = RDiv(RSq(b), d)
                    /\ RMul(d, calculateDistance(outside)) = RSq(b)
                    /\ Cross2(inside, outside) = I(0)
                    /\ RLt(Dot2(inside, outside), I(0))

OutsideIsInversionWitness ==
    /\ UpToDate
    /\ \E a \in 1 .. 3 :
           LET inside == hemi.vanishingPoints[2 * a - 1]
               b == boundaryRadiusOf(hemisphereRadius)
           IN  /\ isFinite2(inside)
               /\ RLt(I(0), calculateDistance(inside))
               /\ RLt(calculateDistance(inside), RMul(b, Q(1, 2)))
               /\ isFinite2(hemi.vanishingPoints[2 * a])
    /\ \E a \in 1 .. 3 :
           calculateDistance(hemi.vanishingPoints[2 * a - 1])
               = boundaryRadiusOf(hemisphereRadius)

----------------------------------------------------------------------------
(* C7: for every hemisphere radius R from 1 to 15, a vanishing point      *)
(* whose distance from the centre is within 0.5% of the boundary radius   *)
(* (pi / 2) * R is found on the boundary, and one at 0.98 times the       *)
(* boundary radius is not.                                                *)

----------------------------------------------------------------------------
(* C8: with all eight vertices validly projected, one axis with both      *)
(* vanishing points on the boundary yields exactly 4 extended guide       *)
(* curves, and two such axes yield exactly 8.                             *)

DegenerateAxes ==
    {a \in 1 .. 3 :
        IsDegenerateAxis(hemi.vanishingPoints, a, boundaryRadiusOf(hemisphereRadius))}

ExtendedCurves == SelectSeq(groups.hemi2D.extensionLines, LAMBDA r : r.kind = "extended")

AllVerticesValid == \A i \in 1 .. 8 : hemi.projectedVertices[i].finite

ExtendedCurveCount ==
    (UpToDate /\ AllVerticesValid) =>
        /\ Cardinality(DegenerateAxes) = 1 => Len(ExtendedCurves) = 4
        /\ Cardinality(DegenerateAxes) = 2 => Len(ExtendedCurves) = 8

----------------------------------------------------------------------------
(* C9: every projection update leaves exactly the projected vertices,     *)
(* vanishing points, drawn primitives and boundary objects that an update *)
(* of a freshly constructed application would leave for the same cube     *)
(* transform, viewpoint, radius and toggles.                              *)

FreshLinear ==
    updateLinearProjection(NoVertices, [rot |-> Identity3, pos |-> IV3(0, 0, 0)],
                           EmptyGroups, <<>>, NoBoundary, <<>>)

FreshHemi ==
    updateHemisphericalProjection(NoVertices, [rot |-> Identity3, pos |-> IV3(0, 0, 0)],
                                  EmptyGroups, <<>>, NoBoundary, FreshLinear.projectionLines)

NothingRetained ==
    [][updates' # updates =>
          \E lin \in {FreshLinear} : \E hem \in {FreshHemi} :
              /\ linear' = lin.result
              /\ hemi' = hem.result
              /\ groups'.linear2D = lin.groups
              /\ groups'.hemi2D = hem.groups
              /\ groups'.master3D.projectionLines = hem.projectionLines
              /\ boundaries'.linear2D = lin.scene
              /\ boundaries'.hemi2D = hem.scene]_vars

\* the third update, on the inputs of the first, with different ones between
NothingRetainedWitness ==
    /\ updates = 3
    /\ changes = 2
    /\ UpToDate
    /\ viewpointPosition = IV3(0, 2, 8)
    /\ hemisphereRadius = 6
    /\ cubeMatrix = Identity3
    /\ showRedRays
    /\ linearProjectionShape = "circle"
    /\ groups.master3D.projectionLines # <<>>

----------------------------------------------------------------------------
(* C10: an update never ends with an exception, and no drawn edge or      *)
(* guide has an undefined end point or vanishing point.                   *)

EdgesOf(group) == SelectSeq(group, LAMBDA r : r.kind = "edge")

----------------------------------------------------------------------------
(* The vertex cache under transform changes, invalidations and lookups *)

EulerAngles == {0, 90}

\* applyIntrinsicEulerRotation with resetFirst: z, then x', then z''
applyIntrinsicEulerRotation(alpha, beta, gamma) ==
    LET first == IF alpha # 0 THEN rotateOnAxis(Identity3, 2, alpha) ELSE Identity3
        second == IF beta # 0 THEN rotateOnAxis(first, 0, beta) ELSE first
    IN  IF gamma # 0 THEN rotateOnAxis(second, 2, gamma) ELSE second

\* setPreciseOrientation(cube, alpha, beta, gamma)
setPreciseOrientation(alpha, beta, gamma) ==
    /\ changes < MaxChanges
    /\ IsExactOrientation(applyIntrinsicEulerRotation(alpha, beta, gamma))
    /\ cubeMatrix' = applyIntrinsicEulerRotation(alpha, beta, gamma)
    /\ cachedWorldVertices' = NoVertices
    /\ changes' = changes + 1
    /\ UNCHANGED <<viewpointPosition, hemisphereRadius, cubeLocalRotation, showRedRays,
                   linearProjectionShape>>
    /\ UNCHANGED <<lastCubeMatrixWorld, lastUpdateHash, groups, boundaries, linear, hemi,
                   thrown>>
    /\ UNCHANGED hemispherePosition
    /\ UNCHANGED interfaceVars
    /\ UNCHANGED updates
    /\ UNCHANGED modeVars
    /\ UNCHANGED windowVars
    /\ UNCHANGED kernelVars

\* resetCubeOrientation()
resetCubeOrientation ==
    /\ changes < MaxChanges
    /\ cubeMatrix' = Identity3
    /\ cubeLocalRotation' = [x |-> 0, y |-> 0, z |-> 0]
    /\ cachedWorldVertices' = NoVertices
    /\ changes' = changes + 1
    /\ UNCHANGED <<viewpointPosition, hemisphereRadius, showRedRays, linearProjectionShape>>
    /\ UNCHANGED <<lastCubeMatrixWorld, lastUpdateHash, groups, boundaries, linear, hemi,
                   thrown>>
    /\ UNCHANGED hemispherePosition
    /\ UNCHANGED updates
    /\ cubeEulerAngles' = [alpha |-> I(0), beta |-> I(0), gamma |-> I(0)]
    /\ UNCHANGED rotationMode
    /\ UNCHANGED windowVars
    /\ UNCHANGED kernelVars

\* a call getCachedWorldVertices(cube): what it read, what it returned and
\* what it left in the state
LookupWorldVertices ==
    \E c \in {getCachedWorldVertices(cachedWorldVertices, lastCubeMatrixWorld,
                                      matrixWorld(cubeMatrix))} :
        /\ kernelIn' = [kind |-> "cube", cache |-> cachedWorldVertices,
                        last |-> lastCubeMatrixWorld,
                        matrixWorld |-> matrixWorld(cubeMatrix)]
        /\ kernelOut' = [fn |-> "getCachedWorldVertices", result |-> c.vertices]
        /\ cachedWorldVertices' = c.vertices
        /\ lastCubeMatrixWorld' = c.last
        /\ UNCHANGED inputVars
        /\ UNCHANGED <<lastUpdateHash, groups, boundaries, linear, hemi, thrown>>
        /\ UNCHANGED <<hemispherePosition, interfaceVars, modeVars, windowVars, changes,
                       updates>>

NextCache ==
    \/ \E axis \in {"x", "y", "z"} : \E value \in SliderAngles :
           handleRotationChange(axis, value)
    \/ \E alpha \in EulerAngles : \E beta \in EulerAngles : \E gamma \in EulerAngles :
           setPreciseOrientation(alpha, beta, gamma)
    \/ resetCubeOrientation /\ UNCHANGED <<interfaceVars, lastEvent>>
    \/ LookupWorldVertices

SpecCache == Init /\ [][NextCache]_vars

----------------------------------------------------------------------------
(* C11 *)

\* C11: in every reachable state the hemisphere's centre is the current
\* viewpoint position, also directly after a viewpoint slider has moved the
\* viewpoint and directly after the hemisphere was recreated for a new
\* radius.
HemisphereCentredOnViewpoint == hemispherePosition = viewpointPosition

----------------------------------------------------------------------------
(* C12 *)

\* C12: after any sequence of cube transform changes, invalidations of the
\* cache (set precise orientation, reset orientation) and lookups, a lookup
\* returns the 8 local corners transformed by the world matrix the cube has
\* at the call, never the vertices of an earlier transform.
CacheReturnsCurrentVertices ==
    Returned("getCachedWorldVertices") =>
        kernelOut.result = ComputeWorldVertices(kernelIn.matrixWorld)

\* a lookup that found the vertices of an earlier transform in the cache
CacheStaleWitness ==
    /\ Returned("getCachedWorldVertices")
    /\ kernelIn.cache # NoVertices
    /\ kernelIn.last # kernelIn.matrixWorld

----------------------------------------------------------------------------
(* C13 *)

\* atan2(y, z) as a reduced pair of integers, for y and z not both zero
AnglePair(y, z) ==
    LET a == y[1] * z[2]
        b == z[1] * y[2]
        g == Gcd(Abs(a), Abs(b))
    IN  <<a \div g, b \div g>>

\* the angle between a ray in the YZ or the XZ plane and the projection
\* axis, which points along -z: acos(-z / |direction|)
PolarAngle(direction) ==
    AnglePair(IF direction.x = I(0) THEN RAbs(direction.y) ELSE RAbs(direction.x),
              RNeg(direction.z))

\* the angle whose arc of radius R is the distance of an emitted point on a
\* coordinate axis from the origin: the point is (0, R theta) or (R phi, 0)
EmittedPolarAngle(v) ==
    IF v.theta = AngleZero THEN <<Abs(v.phi[1]), v.phi[2]>>
    ELSE <<Abs(v.theta[1]), v.theta[2]>>

InCoordinatePlane(direction) ==
    /\ direction # IV3(0, 0, 0)
    /\ direction.x = I(0) \/ direction.y = I(0)

----------------------------------------------------------------------------
(* C14 *)

\* the point of the ray at parameter t
RayPoint(in, t) == Add3(in.rayOrigin, Scale3(in.rayDirection, t))

\* the parameters above the epsilon at which the ray meets the sphere
RootsAboveEpsilon(in) ==
    LET ts == RayParameters(in.rayOrigin, in.rayDirection, in.hemisphereCenter, in.R)
    IN  {ts[i] : i \in {j \in 1 .. Len(ts) : RLt(Q(1, 1000), ts[j])}}

\* C14: the ray/sphere intersection returns the point of the smallest ray
\* parameter among the roots greater than the epsilon 0.001, and null when
\* the discriminant is negative or no root exceeds the epsilon.
NearestIntersection ==
    Returned("intersectRayWithHemisphere") =>
        IF RootsAboveEpsilon(kernelIn) = {} THEN kernelOut.result = NoIntersection
        ELSE \E t \in RootsAboveEpsilon(kernelIn) :
                 /\ \A u \in RootsAboveEpsilon(kernelIn) : RLe(t, u)
                 /\ kernelOut.result = [found |-> TRUE, point |-> RayPoint(kernelIn, t)]
                 /\ Dot3(Sub3(kernelOut.result.point, kernelIn.hemisphereCenter),
                         Sub3(kernelOut.result.point, kernelIn.hemisphereCenter))
                        = I(kernelIn.R * kernelIn.R)

\* a ray from outside that crosses the sphere twice past the epsilon
NearestOfTwoWitness ==
    /\ Returned("intersectRayWithHemisphere")
    /\ Cardinality(RootsAboveEpsilon(kernelIn)) = 2
    /\ kernelOut.result.found

----------------------------------------------------------------------------
(* C15 *)

\* factors that keep the radius within the slider's range [1, 15]
ScaleFactors == {3, 15}

\* points of the unit square about the origin with coordinates in
\* fiftieths, which stay within the 2D view of a radius up to 15 under
\* these factors
WithinUnit(in) ==
    \A p \in {in.p1, in.p2, in.p3} :
        /\ RLe(RAbs(p.x), I(1)) /\ RLe(RAbs(p.y), I(1))
        /\ 50 % p.x[2] = 0 /\ 50 % p.y[2] = 0

\* C15: every collinearity, boundary-incidence and z-parallel-direction test
\* has a threshold proportional to the coordinate scale: multiplying all
\* coordinates and R by the same factor, R staying in [1, 15], never changes
\* the outcome of such a test.
SameOutcomeAtEveryScale ==
    \A k \in ScaleFactors :
        /\ Returned("computeCircleFromThreePoints") /\ WithinUnit(kernelIn) =>
               computeCircleFromThreePoints(Scaled(kernelIn.p1, I(k)), Scaled(kernelIn.p2, I(k)),
                                            Scaled(kernelIn.p3, I(k))).found
                   = kernelOut.result.found
        /\ Returned("findCircle") /\ WithinUnit(kernelIn) =>
               findCircle(Scaled(kernelIn.p1, I(k)), Scaled(kernelIn.p2, I(k)),
                          Scaled(kernelIn.p3, I(k))).found
                   = kernelOut.result.found
        /\ Returned("isOnBoundary") /\ kernelIn.R * k <= 15 =>
               IsOnBoundary(calculateDistance(Scaled(kernelIn.vp, I(k))),
                            boundaryRadiusOf(kernelIn.R * k))
                   = kernelOut.result
        /\ Returned("LinearVanishingPoint") =>
               isFinite2(LinearVanishingPoint(Scale3(kernelIn.dir, I(k)),
                                              Scale3(kernelIn.vp, I(k)), kernelIn.R * k))
                   = isFinite2(kernelOut.result)

----------------------------------------------------------------------------
(* C16 *)

\* the edges of the edge list, as pairs of vertex indices
EdgeList == {<<edges[2 * e - 1], edges[2 * e]>> : e \in 1 .. 12}

\* the edges the per-axis table lists for an axis
EdgesOfAxis(a) == {{AxisEdge(a + 1, k)[1], AxisEdge(a + 1, k)[2]} : k \in 1 .. 4}

\* the coordinates in which two local vertices differ
DifferingCoordinates(i, j) ==
    {c \in 1 .. 3 : localVertices[i + 1][c] # localVertices[j + 1][c]}

\* the edge list, the edge-direction table, the per-axis edge table and the
\* local vertex table describe the same cube
TablesAgree ==
    /\ Cardinality(EdgeList) = 12
    /\ \A e \in EdgeList :
           /\ Cardinality({t \in edgeDirectionEntries : t[1] = e[1] /\ t[2] = e[2]}) = 1
           /\ Cardinality({t \in edgeDirectionEntries : t[1] = e[2] /\ t[2] = e[1]}) = 1
           /\ edgeDirections(e[1], e[2]) \in Axes
           /\ edgeDirections(e[2], e[1]) = edgeDirections(e[1], e[2])
           /\ DifferingCoordinates(e[1], e[2]) = {edgeDirections(e[1], e[2]) + 1}
    /\ \A a \in Axes :
           /\ Cardinality(EdgesOfAxis(a)) = 4
           /\ EdgesOfAxis(a) = {{e[1], e[2]} : e \in {f \in EdgeList :
                                                        edgeDirections(f[1], f[2]) = a}}

\* C16: the static cube tables, from which every update draws the cube,
\* agree.  Each of the 12 edges of the edge list has exactly one axis in the
\* edge-direction table, the same for both orders of its vertex indices; the
\* per-axis edge table lists exactly the 4 edges carrying that axis; the two
\* vertices of every edge differ only along that axis in the local vertex
\* table.
CubeTablesAgree == UpToDate => TablesAgree

\* an update has looked up the axis of each of the 12 edges and drawn them
CubeTablesWitness ==
    /\ UpToDate
    /\ Len(EdgesOf(groups.hemi2D.projectedCubeLines)) = 12
    /\ \A a \in Axes : \E k \in 1 .. Len(groups.hemi2D.projectedCubeLines) :
           /\ groups.hemi2D.projectedCubeLines[k].kind = "edge"
           /\ edgeDirections(groups.hemi2D.projectedCubeLines[k].v1,
                              groups.hemi2D.projectedCubeLines[k].v2) = a


----------------------------------------------------------------------------
(* The range and number inputs of the slider controls *)

\* index.html: min, max and step of a control's two inputs
ControlRange(c) ==
    CASE c = "viewpointX" -> [min |-> I(-10), max |-> I(10), step |-> Q(1, 10)]
      [] c = "viewpointY" -> [min |-> I(-10), max |-> I(10), step |-> Q(1, 10)]
      [] c = "viewpointZ" -> [min |-> I(0), max |-> I(20), step |-> Q(1, 10)]
      [] c = "hemisphereRadius" -> [min |-> I(1), max |-> I(15), step |-> Q(1, 10)]

RMin(a, b) == IF RLt(b, a) THEN b ELSE a

\* Math.max(min, Math.min(max, value))
Clamp(value, min, max) == RMax(min, RMin(max, value))

\* Math.floor
RFloor(a) == a[1] \div a[2]

\* slider.value = value on an input of type range: the value is brought into
\* [min, max] and to the nearest multiple of step counted from min, a tie
\* going up
SetRangeValue(c, value) ==
    LET r == ControlRange(c)
        inRange == Clamp(value, r.min, r.max)
        k == RFloor(RAdd(RDiv(RSub(inRange, r.min), r.step), Q(1, 2)))
    IN  RAdd(r.min, RMul(I(k), r.step))

\* numberInput.value = value on an input of type number: the number's
\* decimal string, which parseFloat reads back as the same number
SetNumberValue(c, value) == value

\* what parseFloat gives for text that is not a number

\* the state parameter a control is bound to
Parameter(c) ==
    CASE c = "viewpointX" -> viewpointPosition.x
      [] c = "viewpointY" -> viewpointPosition.y
      [] c = "viewpointZ" -> viewpointPosition.z
      [] c = "hemisphereRadius" -> I(hemisphereRadius)

\* setupControls: the callback of each slider control
updateCallback(c, value) ==
    CASE c = "viewpointX" ->
             /\ viewpointPosition' = [viewpointPosition EXCEPT !.x = value]
             /\ UNCHANGED <<hemisphereRadius, hemispherePosition>>
      [] c = "viewpointY" ->
             /\ viewpointPosition' = [viewpointPosition EXCEPT !.y = value]
             /\ UNCHANGED <<hemisphereRadius, hemispherePosition>>
      [] c = "viewpointZ" ->
             /\ viewpointPosition' = [viewpointPosition EXCEPT !.z = value]
             /\ UNCHANGED <<hemisphereRadius, hemispherePosition>>
      [] c = "hemisphereRadius" ->
             /\ value[2] = 1
             /\ hemisphereRadius' = value[1]
             /\ hemispherePosition' = recreateHemisphere(value[1], viewpointPosition)
             /\ UNCHANGED viewpointPosition

\* what an input handler leaves alone
InputFrame ==
    /\ UNCHANGED <<cubeLocalRotation, cubeMatrix, showRedRays, linearProjectionShape>>
    /\ UNCHANGED outputVars
    /\ UNCHANGED <<panelVars, frameVars>>
    /\ UNCHANGED updates
    /\ UNCHANGED modeVars
    /\ UNCHANGED windowVars
    /\ UNCHANGED kernelVars

\* the 'input' listener of the slider, which the user moved to value
SliderInput(c, value) ==
    /\ changes < MaxChanges
    /\ sliderValue' = [sliderValue EXCEPT ![c] = value]
    /\ numberValue' = [numberValue EXCEPT ![c] = SetNumberValue(c, value)]
    /\ updateCallback(c, value)
    /\ scheduleUpdate
    /\ lastInput' = [field |-> "slider", control |-> c, value |-> value]
    /\ changes' = changes + 1
    /\ InputFrame

\* the 'input' listener of the number field, in which the user typed a number
NumberInput(c, typed) ==
    LET r == ControlRange(c)
        value == Clamp(typed, r.min, r.max)
    IN  /\ changes < MaxChanges
        /\ sliderValue' = [sliderValue EXCEPT ![c] = SetRangeValue(c, value)]
        /\ numberValue' = [numberValue EXCEPT ![c] = SetNumberValue(c, value)]
        /\ updateCallback(c, value)
        /\ scheduleUpdate
        /\ lastInput' = [field |-> "number", control |-> c, value |-> typed]
        /\ changes' = changes + 1
        /\ InputFrame

\* the same listener when the text is not a number: the field is set to the
\* slider's value and nothing else happens
NumberInputNaN(c) ==
    /\ numberValue' = [numberValue EXCEPT ![c] = SetNumberValue(c, sliderValue[c])]
    /\ lastInput' = [field |-> "number", control |-> c, value |-> NaN]
    /\ UNCHANGED <<viewpointPosition, hemisphereRadius, hemispherePosition, sliderValue,
                   debounceVars, changes>>
    /\ InputFrame

\* the 'blur' listener of the number field
NumberBlur(c) ==
    LET r == ControlRange(c)
        value == Clamp(numberValue[c], r.min, r.max)
    IN  /\ numberValue' = [numberValue EXCEPT ![c] = SetNumberValue(c, value)]
        /\ sliderValue' = [sliderValue EXCEPT ![c] = SetRangeValue(c, value)]
        /\ lastInput' = [field |-> "blur", control |-> c]
        /\ UNCHANGED <<viewpointPosition, hemisphereRadius, hemispherePosition,
                       debounceVars, changes>>
        /\ InputFrame

\* positions the sliders are moved to
SliderPositions(c) ==
    CASE c = "viewpointX" -> {I(0), I(2)}
      [] c = "viewpointY" -> {I(0), I(2)}
      [] c = "viewpointZ" -> {I(5), I(8)}
      [] c = "hemisphereRadius" -> {I(1), I(6)}

\* numbers typed into the number fields: below the range, between two steps,
\* on a step and above the range
TypedNumbers(c) ==
    IF c = "hemisphereRadius" THEN {I(0), I(6), I(20)}
    ELSE {I(-12), Q(1, 4), I(2), I(25)}

NextInputs ==
    \/ \E c \in SliderControls : \E value \in SliderPositions(c) : SliderInput(c, value)
    \/ \E c \in SliderControls : \E typed \in TypedNumbers(c) : NumberInput(c, typed)
    \/ \E c \in SliderControls : NumberInputNaN(c)
    \/ \E c \in SliderControls : NumberBlur(c)

SpecInputs == Init /\ [][NextInputs]_vars

----------------------------------------------------------------------------
(* C17 *)

\* C17: after an input event on a control's number field with a numeric
\* value v, the slider, the number field and the bound state parameter all
\* hold v clamped to the control's [min, max]; after an input event on the
\* slider, the number field and the state parameter equal the slider's value.
FieldsAndParameterAgree ==
    /\ (lastInput.field = "number" /\ lastInput.value # NaN) =>
           LET c == lastInput.control
               r == ControlRange(c)
               v == Clamp(lastInput.value, r.min, r.max)
           IN  /\ sliderValue[c] = v
               /\ numberValue[c] = v
               /\ Parameter(c) = v
    /\ lastInput.field = "slider" =>
           LET c == lastInput.control
           IN  /\ numberValue[c] = sliderValue[c]
               /\ Parameter(c) = sliderValue[c]


----------------------------------------------------------------------------
(* The Controls button: dragging the container and toggling the panel *)

\* Define minimum visible area (at least 50px should remain visible)
minVisible == 50

Least(a, b) == IF a < b THEN a ELSE b
Greatest(a, b) == IF a < b THEN b ELSE a

\* positions the pointer is moved to
PointerPositions == {[x |-> x, y |-> y] : x \in {10, 130, 180, 230}, y \in {30, 150}}

\* the pointer is on the Controls button, the top of the container
OnButton(p, position) ==
    /\ position.left <= p.x /\ p.x <= position.left + ContainerSize.width
    /\ position.top <= p.y /\ p.y <= position.top + ContainerSize.height

FrozenByPanel ==
    /\ UNCHANGED inputVars
    /\ UNCHANGED outputVars
    /\ UNCHANGED <<hemispherePosition, fieldVars, debounceVars, frameVars>>
    /\ UNCHANGED <<changes, updates>>
    /\ UNCHANGED modeVars
    /\ UNCHANGED windowVars
    /\ UNCHANGED kernelVars

\* 'mousedown' on the Controls button
MouseDown(button) ==
    /\ mouseButton = "up"
    /\ OnButton(pointer, containerPosition)
    /\ mouseButton' = IF button = 0 THEN "primary" ELSE "secondary"
    /\ pointerMoved' = IF button = 0 THEN FALSE ELSE pointerMoved
    /\ IF button # 0 \/ isDragging
       THEN UNCHANGED <<isDragging, hasDragged, dragOffset>>
       ELSE /\ isDragging' = TRUE
            /\ hasDragged' = FALSE
            /\ dragOffset' = [x |-> pointer.x - containerPosition.left,
                              y |-> pointer.y - containerPosition.top]
    /\ UNCHANGED <<panelShown, containerPosition, pointer, clicks>>
    /\ FrozenByPanel

\* 'mousemove' on the document: the pointer has come to p
MouseMove(p) ==
    /\ mouseButton # "clicking"
    /\ p # pointer
    /\ pointer' = p
    /\ pointerMoved' = IF mouseButton = "primary" THEN TRUE ELSE pointerMoved
    /\ IF ~isDragging
       THEN UNCHANGED <<hasDragged, containerPosition>>
       ELSE /\ hasDragged' = TRUE
            /\ containerPosition' =
                   [left |-> Greatest(-ContainerSize.width + minVisible,
                                      Least(Window.width - minVisible, p.x - dragOffset.x)),
                    top |-> Greatest(-ContainerSize.height + minVisible,
                                     Least(Window.height - minVisible, p.y - dragOffset.y))]
    /\ UNCHANGED <<isDragging, panelShown, dragOffset, mouseButton, clicks>>
    /\ FrozenByPanel

\* 'mouseup' on the document; a primary release on the button is followed by
\* the button's click
MouseUp ==
    /\ mouseButton \in {"primary", "secondary"}
    /\ isDragging' = FALSE
    /\ mouseButton' = IF mouseButton = "primary" /\ OnButton(pointer, containerPosition)
                      THEN "clicking" ELSE "up"
    /\ UNCHANGED <<hasDragged, panelShown, containerPosition, dragOffset, pointer,
                   pointerMoved, clicks>>
    /\ FrozenByPanel

\* 'keydown' on the document with the Escape key
Escape ==
    /\ mouseButton # "clicking"
    /\ IF isDragging
       THEN isDragging' = FALSE /\ hasDragged' = FALSE
       ELSE UNCHANGED <<isDragging, hasDragged>>
    /\ UNCHANGED <<panelShown, containerPosition, dragOffset, pointer, mouseButton,
                   pointerMoved, clicks>>
    /\ FrozenByPanel

\* 'click' on the Controls button
Click ==
    /\ mouseButton = "clicking"
    /\ mouseButton' = "up"
    /\ clicks' = 1 - clicks
    /\ IF hasDragged
       THEN hasDragged' = FALSE /\ UNCHANGED panelShown
       ELSE panelShown' = ~panelShown /\ UNCHANGED hasDragged
    /\ UNCHANGED <<isDragging, containerPosition, dragOffset, pointer, pointerMoved>>
    /\ FrozenByPanel

\* 'dblclick' on the Controls button: the container goes back to its place
DblClick ==
    /\ mouseButton = "up"
    /\ OnButton(pointer, containerPosition)
    /\ containerPosition' = DefaultPosition
    /\ UNCHANGED <<isDragging, hasDragged, panelShown, dragOffset, pointer, mouseButton,
                   pointerMoved, clicks>>
    /\ FrozenByPanel

\* a click outside the container closes the panel
ClickOutside ==
    /\ mouseButton = "up"
    /\ ~OnButton(pointer, containerPosition)
    /\ panelShown' = FALSE
    /\ UNCHANGED <<isDragging, hasDragged, containerPosition, dragOffset, pointer,
                   mouseButton, pointerMoved, clicks>>
    /\ FrozenByPanel

NextPanel ==
    \/ \E button \in {0, 2} : MouseDown(button)
    \/ \E p \in PointerPositions : MouseMove(p)
    \/ MouseUp
    \/ Escape
    \/ Click
    \/ DblClick
    \/ ClickOutside

SpecPanel == Init /\ [][NextPanel]_vars

----------------------------------------------------------------------------
(* C18 *)

\* C18: whatever the order of mousedown, mousemove, Escape, mouseup and click
\* on the Controls button, a click toggles the panel's visibility if and only
\* if the pointer did not move between the preceding mousedown and the click.
ClickTogglesUnlessMoved ==
    [][clicks' # clicks => ((panelShown' # panelShown) <=> (pointerMoved = FALSE))]_vars


----------------------------------------------------------------------------
(* Scheduled updates and the animation loop *)

\* ProjectionManager.scheduleUpdate(updateType): the activity time and the
\* flags after the call
managerScheduleUpdate(updateType) ==
    /\ recentActivity' = TRUE
    /\ viewportDirty' =
           CASE updateType = "all" -> [id \in Viewports |-> TRUE]
             [] updateType = "camera" ->
                    [viewportDirty EXCEPT !.linear3D = TRUE, !.hemi3D = TRUE]
             [] updateType = "zoom2D" ->
                    [viewportDirty EXCEPT !.linear2D = TRUE, !.hemi2D = TRUE]
    /\ needsUpdate' =
           IF updateType \in {"all", "camera"}
           THEN [linear |-> TRUE, hemi |-> TRUE, render |-> TRUE]
           ELSE [needsUpdate EXCEPT !.render = TRUE]

\* main.js init: the one call of updateProjections
InitialUpdate ==
    /\ updates = 0
    /\ UpdateProjections

\* the callback of the k-th pending timer of Controls.scheduleUpdate
TimerCallback(k) ==
    /\ timers' = [i \in 1..(Len(timers) - 1) |-> IF i < k THEN timers[i] ELSE timers[i + 1]]
    /\ run' = [run EXCEPT !.calls = IF run.calls < 2 THEN run.calls + 1 ELSE run.calls]
    /\ updateTimeout' = FALSE
    /\ managerScheduleUpdate("all")
    /\ UNCHANGED <<rendered, frames>>
    /\ UNCHANGED inputVars
    /\ UNCHANGED outputVars
    /\ UNCHANGED <<hemispherePosition, fieldVars, panelVars, changes, updates>>
    /\ UNCHANGED modeVars
    /\ UNCHANGED windowVars
    /\ UNCHANGED kernelVars

\* a timer set by Controls.scheduleUpdate runs out, whenever that is
TimerFires == \E k \in DOMAIN timers : TimerCallback(k)

\* a timer set by Controls.scheduleUpdate runs out when its delay has passed
TimerDue == \E k \in DOMAIN timers : timers[k] = 0 /\ TimerCallback(k)

\* a millisecond passes with no event; a timer that is due runs first
Tick ==
    /\ \A k \in DOMAIN timers : timers[k] > 0
    /\ timers' = [k \in DOMAIN timers |-> timers[k] - 1]
    /\ run' = [run EXCEPT !.since = IF run.since > debounceTimeout THEN run.since
                                    ELSE run.since + 1]
    /\ UNCHANGED inputVars
    /\ UNCHANGED outputVars
    /\ UNCHANGED <<hemispherePosition, fieldVars, panelVars, updateTimeout, frameVars,
                   changes, updates>>
    /\ UNCHANGED modeVars
    /\ UNCHANGED windowVars
    /\ UNCHANGED kernelVars

NextDebounce ==
    \/ \E axis \in {"x", "z"} : \E value \in ViewpointValues(axis) :
           SetViewpoint(axis, value)
    \/ ToggleRedRays
    \/ ToggleLinearShape
    \/ TimerDue
    \/ Tick

SpecDebounce == Init /\ [][NextDebounce]_vars

\* handleMouseMove while the cube is dragged, by the pixels that turn it by
\* angleY about its y axis and then by angleX about its x axis: nothing in
\* precise mode
DragCube(angleY, angleX) ==
    LET turned == rotateOnAxis(rotateOnAxis(cubeMatrix, 1, angleY), 0, angleX)
    IN  /\ lastEvent' = "cube drag"
        /\ UNCHANGED <<rotationMode, cubeEulerAngles>>
        /\ UNCHANGED windowVars
        /\ UNCHANGED kernelVars
        /\ IF rotationMode # "local"
           THEN UNCHANGED <<inputVars, outputVars, hemispherePosition, interfaceVars, changes,
                            updates>>
           ELSE /\ updates > 0
                /\ changes < MaxChanges
                /\ IsExactOrientation(turned)
                /\ cubeLocalRotation' = [cubeLocalRotation EXCEPT !.y = @ + angleY, !.x = @ + angleX]
                /\ cubeMatrix' = turned
                /\ managerScheduleUpdate("all")
                /\ changes' = changes + 1
                /\ UNCHANGED <<viewpointPosition, hemisphereRadius, showRedRays,
                               linearProjectionShape>>
                /\ UNCHANGED outputVars
                /\ UNCHANGED <<hemispherePosition, fieldVars, panelVars, debounceVars, rendered,
                               frames, updates>>

\* a mouse handler that only moves a camera: a scene drag ("camera") or a
\* zoom of the 2D views ("zoom2D")
MoveCamera(updateType) ==
    /\ updates > 0
    /\ managerScheduleUpdate(updateType)
    /\ UNCHANGED inputVars
    /\ UNCHANGED outputVars
    /\ UNCHANGED <<hemispherePosition, fieldVars, panelVars, debounceVars, rendered, frames,
                   changes, updates>>
    /\ UNCHANGED modeVars
    /\ UNCHANGED windowVars
    /\ UNCHANGED kernelVars

\* a second goes by
SecondPasses ==
    /\ recentActivity
    /\ recentActivity' = FALSE
    /\ UNCHANGED <<viewportDirty, needsUpdate, rendered, frames>>
    /\ UNCHANGED inputVars
    /\ UNCHANGED outputVars
    /\ UNCHANGED <<hemispherePosition, fieldVars, panelVars, debounceVars, changes, updates>>
    /\ UNCHANGED modeVars
    /\ UNCHANGED windowVars
    /\ UNCHANGED kernelVars

\* Renderer.animate for a frame that passes the rate limit
animate ==
    LET isIdle == ~recentActivity
        drawn == IF ~isIdle \/ needsUpdate.render
                 THEN {id \in Viewports : viewportDirty[id] \/ ~isIdle}
                 ELSE {}
    IN  /\ rendered' = drawn
        /\ viewportDirty' = [id \in Viewports |-> viewportDirty[id] /\ id \notin drawn]
        /\ needsUpdate' = IF drawn # {} THEN [needsUpdate EXCEPT !.render = FALSE]
                          ELSE needsUpdate
        /\ frames' = 1 - frames
        /\ UNCHANGED recentActivity
        /\ UNCHANGED inputVars
        /\ UNCHANGED outputVars
        /\ UNCHANGED <<hemispherePosition, fieldVars, panelVars, debounceVars, changes,
                       updates>>
        /\ UNCHANGED modeVars
        /\ UNCHANGED windowVars
        /\ UNCHANGED kernelVars

\* the page after init: the controls, the mouse, the timer and the frames
NextFrames ==
    \/ InitialUpdate
    \/ updates > 0 /\ SetViewpoint("z", 5)
    \/ updates > 0 /\ SetHemisphereRadius(1)
    \/ updates > 0 /\ handleRotationChange("y", 90)
    \/ updates > 0 /\ ToggleRedRays
    \/ updates > 0 /\ ToggleLinearShape
    \/ DragCube(90, 0)
    \/ \E updateType \in {"camera", "zoom2D"} : MoveCamera(updateType)
    \/ TimerFires
    \/ SecondPasses
    \/ animate

SpecFrames == Init /\ [][NextFrames]_vars

\* a set timer runs out and the browser keeps calling the frame callback
FairFrames ==
    /\ SpecFrames
    /\ WF_vars(TimerFires)
    /\ WF_vars(animate)

----------------------------------------------------------------------------
(* C19 *)

\* C19: in every animation frame a viewport is rendered only if its dirty
\* flag is set, and rendering a viewport clears its dirty flag.
RendersOnlyDirtyViewports ==
    [][frames' # frames =>
           \A id \in rendered' : viewportDirty[id] /\ ~viewportDirty'[id]]_vars

----------------------------------------------------------------------------
(* C20 *)

\* C20: after a parameter change made through the controls (viewpoint,
\* radius, rotation, toggles) or by dragging the cube, both 2D projections
\* are eventually recomputed from the new parameter values: whenever, after
\* init, the parameters are not those of the last update, an update for them
\* follows.
ChangesAreEventuallyProjected ==
    (updates > 0 /\ generateUpdateHash # lastUpdateHash)
        ~> (generateUpdateHash = lastUpdateHash)


----------------------------------------------------------------------------
(* C21 *)

\* the direction d seen from the direction s: turned by the angle of s back
\* to angle 0, so that its angle is the counter-clockwise sweep from s to d
SeenFrom(s, d) == V2(Dot2(s, d), Cross2(s, d))

\* the angle of d is 0
AtAngleZero(d) == RSgn(d.y) = 0 /\ RSgn(d.x) > 0

\* going counter-clockwise from the start angle until the end angle is
\* reached (a full turn where the two are the same angle), the middle angle
\* is passed strictly in between
StrictlyBetweenCCW(startAngle, midAngle, endAngle) ==
    LET m == SeenFrom(startAngle, midAngle)
        e == SeenFrom(startAngle, endAngle)
    IN  /\ ~AtAngleZero(m)
        /\ AtAngleZero(e) \/ AngleLt(m, e)

\* C21: for every triple of start, middle and end angles in [0, 2 pi), also
\* where the range from start to end wraps past 2 pi, the counter-clockwise
\* flag used for sampling is the negation of the test 'the middle angle lies
\* strictly between the start angle and the end angle going
\* counter-clockwise'.
FlagNegatesBetweenness ==
    Returned("determineArcParameters") =>
        kernelOut.result.counterClockwise =
            ~StrictlyBetweenCCW(kernelIn.angles[1], kernelIn.angles[2], kernelIn.angles[3])

\* a range that wraps past 2 pi with the middle angle inside it
WrappedRangeWitness ==
    /\ Returned("determineArcParameters")
    /\ AngleLt(kernelIn.angles[3], kernelIn.angles[1])
    /\ AngleLt(kernelIn.angles[2], kernelIn.angles[3])
    /\ ~kernelOut.result.counterClockwise


----------------------------------------------------------------------------
(* The update for a cube whose world transform has drifted: its x axis is  *)
(* stretched, so that the determinant is 2.                                *)

Stretch == << <<I(2), I(0), I(0)>>, <<I(0), I(1), I(0)>>, <<I(0), I(0), I(1)>> >>

DriftViewpoints == {IV3(x, y, z) : x \in {0, 2}, y \in {0, 2}, z \in {5, 8}}

InitDrift ==
    /\ viewpointPosition \in DriftViewpoints
    /\ hemisphereRadius \in ProjectRadii
    /\ \E axis \in {"x", "y", "z"} : \E angle \in ProjectAngles :
           /\ cubeLocalRotation = [[x |-> 0, y |-> 0, z |-> 0] EXCEPT ![axis] = angle]
           /\ cubeMatrix = MatMul(rotateOnAxis(Identity3, AxisIndex(axis), angle), Stretch)
    /\ showRedRays \in BOOLEAN
    /\ linearProjectionShape = "circle"
    /\ OutputsInit
    /\ hemispherePosition = createHemisphere(hemisphereRadius, viewpointPosition)
    /\ InterfaceInit
    /\ ModeInit
    /\ WindowInit
    /\ changes = 0
    /\ updates = 0
    /\ KernelIdle

SpecDrift == InitDrift /\ [][NextProject]_vars

----------------------------------------------------------------------------
(* C22 *)

\* the world vertices of the cube under the rebuilt rotation matrix
RebuiltWorldVertices ==
    ComputeWorldVertices(matrixWorld(makeRotationFromEuler(cubeLocalRotation)))

\* C22: within one hemispherical update, when the determinant of the cube's
\* world transform differs from 1 by more than 0.01, the rotation matrix is
\* rebuilt before any vertex or vanishing point of that update is computed:
\* the vertices and vanishing points the update emits are those of the
\* rebuilt matrix.
NothingFromDriftedMatrix ==
    [][(updates' # updates /\ IsDrifted(cubeMatrix)) =>
           /\ hemi'.projectedVertices =
                  HemiProjectedVertices(RebuiltWorldVertices, viewpointPosition)
           /\ hemi'.vanishingPoints = HemiVanishingPoints(RebuiltWorldVertices, hemisphereRadius)
      ]_vars


----------------------------------------------------------------------------
(* C24 *)

WithinBoundary(p, boundaryRadius) == RLe(LenSq2(p), RSq(boundaryRadius))

\* C24: whenever an inside vanishing point is chosen from a non-empty set of
\* candidate intersection points, the chosen point lies within the boundary
\* circle and no other candidate within the boundary circle is nearer the
\* centre.
ChosenIsNearestInside ==
    (/\ Returned("selectCorrectIntersection")
     /\ kernelOut.result.intersections # <<>>
     /\ kernelOut.result.chosen # Null) =>
        LET chosen == kernelOut.result.chosen
            candidates == kernelOut.result.intersections
        IN  /\ WithinBoundary(chosen, kernelIn.boundaryRadius)
            /\ \A k \in 1 .. Len(candidates) :
                   WithinBoundary(candidates[k], kernelIn.boundaryRadius) =>
                       RLe(LenSq2(chosen), LenSq2(candidates[k]))

\* of two candidates the first is outside and the second, inside, is chosen
SecondCandidateWitness ==
    /\ Returned("selectCorrectIntersection")
    /\ Len(kernelOut.result.intersections) = 2
    /\ ~WithinBoundary(kernelOut.result.intersections[1], kernelIn.boundaryRadius)
    /\ kernelOut.result.chosen = kernelOut.result.intersections[2]


----------------------------------------------------------------------------
(* C23 *)

\* the drawn curve has no point beyond the circle of radius b about the
\* centre of the view.  On a circle about c the distance from the centre of
\* the view is greatest in the direction of c and falls off to both sides, so
\* an arc that misses that direction is farthest out at one of its ends.
CurveWithin(curve, b) ==
    IF curve.kind = "line"
    THEN \A k \in DOMAIN curve.points : RLe(LenSq2(curve.points[k]), RSq(b))
    ELSE LET c == curve.center
             first == V2(RAdd(c.x, curve.startAngle.x), RAdd(c.y, curve.startAngle.y))
             last == V2(RAdd(c.x, curve.endAngle.x), RAdd(c.y, curve.endAngle.y))
             passesFarthest ==
                 IF curve.counterClockwise
                 THEN OnCCWSweep(curve.startAngle, c, curve.endAngle)
                 ELSE OnCCWSweep(curve.endAngle, c, curve.startAngle)
         IN  IF c # IV2(0, 0) /\ passesFarthest
             THEN RLe(RAdd(Sqrt(LenSq2(c)), Sqrt(curve.radiusSq)), b)
             ELSE RLe(LenSq2(first), RSq(b)) /\ RLe(LenSq2(last), RSq(b))

\* C23: every point of every extended guide curve lies inside or on the
\* boundary circle of radius (pi/2) * R.
ExtendedCurvesWithinBoundary ==
    Returned("extendedGuideArcs") =>
        \A k \in DOMAIN kernelOut.result.curves :
            CurveWithin(kernelOut.result.curves[k], kernelOut.result.boundaryRadius)


----------------------------------------------------------------------------
(* C26 *)

\* the angle is within [-180, 180] and differs from the input by whole turns
NormalizedFrom(angle, input) ==
    /\ RLe(I(-180), angle)
    /\ RLe(angle, I(180))
    /\ RDiv(RSub(angle, input), I(360))[2] = 1

\* C26: for every finite numeric input (for example 370, -200, 540),
\* validateEulerAngles returns each of alpha, beta and gamma within
\* [-180, 180] and equal to the input modulo 360; a non-numeric input is
\* returned as 0.
ValidatedAnglesNormalized ==
    Returned("validateEulerAngles") =>
        \A angle \in {"alpha", "beta", "gamma"} :
            IF isNaN(kernelIn[angle]) THEN kernelOut.result[angle] = I(0)
            ELSE NormalizedFrom(kernelOut.result[angle], kernelIn[angle])


----------------------------------------------------------------------------
(* The two rotation systems: the mode buttons, the Euler angle controls   *)
(* and the Reset Rotation button                                          *)

\* state.js setRotationMode: the mode that is stored
setRotationMode(mode) == IF mode # "local" /\ mode # "precise" THEN "local" ELSE mode

\* extractEulerAngles: Euler.setFromQuaternion is given the order 'ZXZ',
\* which THREE.Euler does not know, and leaves the new Euler at (0, 0, 0)
\* whatever the orientation is
extractEulerAngles(m) == validateEulerAngles(I(0), I(0), I(0))

\* switchToMode(mode) of the mode buttons, with synchronizeRotationState
switchToMode(mode) ==
    LET previousMode == rotationMode
    IN  /\ changes < MaxChanges
        /\ lastEvent' = "mode button"
        /\ rotationMode' = setRotationMode(mode)
        /\ IF previousMode # mode /\ mode = "precise"
           THEN /\ cubeEulerAngles' = extractEulerAngles(cubeMatrix)
                /\ UNCHANGED cubeLocalRotation
           ELSE IF previousMode # mode /\ mode = "local"
           THEN /\ cubeLocalRotation' = [x |-> 0, y |-> 0, z |-> 0]
                /\ UNCHANGED cubeEulerAngles
           ELSE UNCHANGED <<cubeLocalRotation, cubeEulerAngles>>
        /\ scheduleUpdate
        /\ UNCHANGED <<viewpointPosition, hemisphereRadius, cubeMatrix, showRedRays,
                       linearProjectionShape>>
        /\ UNCHANGED outputVars
        /\ changes' = changes + 1
        /\ UNCHANGED <<hemispherePosition, fieldVars, panelVars, frameVars, updates>>
        /\ UNCHANGED windowVars
        /\ UNCHANGED kernelVars

\* the input event of an Euler angle slider: the angle is stored, and in
\* precise mode the cube is set to the validated angles
EulerInput(angleProperty, value) ==
    LET angles == [cubeEulerAngles EXCEPT ![angleProperty] = I(value)]
        validated == validateEulerAngles(angles.alpha, angles.beta, angles.gamma)
        orientation == applyIntrinsicEulerRotation(validated.alpha[1], validated.beta[1],
                                                   validated.gamma[1])
    IN  /\ changes < MaxChanges
        /\ cubeEulerAngles[angleProperty] # I(value)
        /\ lastEvent' = "euler slider"
        /\ cubeEulerAngles' = angles
        /\ IF isPreciseOrientationMode
           THEN /\ IsExactOrientation(orientation)
                /\ cubeMatrix' = orientation
                /\ cachedWorldVertices' = NoVertices
           ELSE UNCHANGED <<cubeMatrix, cachedWorldVertices>>
        /\ changes' = changes + 1
        /\ scheduleUpdate
        /\ UNCHANGED <<viewpointPosition, hemisphereRadius, cubeLocalRotation, showRedRays,
                       linearProjectionShape, rotationMode>>
        /\ UNCHANGED <<lastCubeMatrixWorld, lastUpdateHash, groups, boundaries, linear, hemi,
                       thrown>>
        /\ UNCHANGED <<hemispherePosition, fieldVars, panelVars, frameVars, updates>>
        /\ UNCHANGED windowVars
        /\ UNCHANGED kernelVars

\* the click on Reset Rotation
ResetRotationClick ==
    /\ resetCubeOrientation
    /\ scheduleUpdate
    /\ lastEvent' = "reset button"
    /\ UNCHANGED <<fieldVars, panelVars, frameVars>>

Modes == {"local", "precise", "other"}

NextModes ==
    \/ \E axis \in {"x", "y"} : \E value \in {0, 90} : handleRotationChange(axis, value)
    \/ DragCube(90, 0)
    \/ \E angleProperty \in {"alpha", "beta"} : \E value \in EulerAngles :
           EulerInput(angleProperty, value)
    \/ \E mode \in Modes : switchToMode(mode)
    \/ ResetRotationClick
    \/ UpdateProjections

SpecModes == Init /\ [][NextModes]_vars

----------------------------------------------------------------------------
(* C25 *)

\* C25: updateProjections skips recomputation only if no projection input
\* (viewpoint, radius, cube orientation, ray toggle, image-plane shape) has
\* changed since the last recomputation; after any change of the cube's
\* orientation, including Reset Rotation, the next updateProjections call
\* recomputes both projections.  The viewpoint, the radius and the two
\* toggles are in the hash as they are; the orientation last projected is
\* the one getCachedWorldVertices recorded.
SkipsOnlyWhenUnchanged ==
    (updates > 0 /\ generateUpdateHash = lastUpdateHash) =>
        lastCubeMatrixWorld = matrixWorld(cubeMatrix)


----------------------------------------------------------------------------
(* C27 *)

IgnoredEulerEventWitness ==
    /\ rotationMode = "local"
    /\ lastEvent = "euler slider"
    /\ cubeEulerAngles.beta = I(90)
    /\ cubeMatrix = rotateOnAxis(Identity3, 1, 90)

----------------------------------------------------------------------------
(* The debounce of control changes *)

\* a timer of Controls.scheduleUpdate calls projectionManager.scheduleUpdate
CallMade == run'.calls # run.calls /\ run'.calls > 0

\* C28: a run of control changes, each less than 8 ms after the one before,
\* causes exactly one call of projectionManager.scheduleUpdate('all'), and
\* that call is made 8 ms after the last change of the run; there is never
\* more than one timer pending
DebouncedOnce ==
    [][/\ Len(timers) <= 1
       /\ Len(timers') <= 1
       /\ CallMade => run.since = debounceTimeout /\ run.calls = 0
       /\ (run'.length > 0 /\ run'.since < debounceTimeout) => run'.calls = 0
       /\ (run'.length > 0 /\ run'.since > debounceTimeout) => run'.calls = 1]_vars

\* a run of two or more changes has had its one call
DebouncedRunWitness == run.length >= 2 /\ run.calls = 1 /\ timers = <<>>

----------------------------------------------------------------------------
(* Projected edges and vanishing points *)

\* three points of the image plane lie on one straight line
Collinear(p, q, v) == Cross2(Sub2(p, v), Sub2(q, v)) = I(0)

\* the e-th edge of the edge list: its projected end points and the linear
\* vanishing point of its axis
ProjectedEdge(e) ==
    LET i == edges[2 * e - 1]
        j == edges[2 * e]
        a == edgeDirections(i, j)
    IN  [axis |-> a,
         p1 |-> linear.projectedVertices[i + 1],
         p2 |-> linear.projectedVertices[j + 1],
         vp |-> linear.vanishingPoints[a + 1]]

\* the edge has finite projected end points and a defined vanishing point
EdgeHasVanishingPoint(e) ==
    /\ isFinite2(ProjectedEdge(e).p1)
    /\ isFinite2(ProjectedEdge(e).p2)
    /\ isFinite2(ProjectedEdge(e).vp)

\* a guide line of the linear 2D view from a point to a vanishing point
HasGuide(a, from, to) ==
    \E k \in DOMAIN groups.linear2D.extensionLines :
        groups.linear2D.extensionLines[k]
            = [kind |-> "guide", axis |-> a, from |-> from, to |-> to]

\* C29: in the linear projection, for every cube edge whose two end points
\* project to finite points and whose axis has a defined vanishing point,
\* the two projected end points and that vanishing point are collinear, so
\* the guide line from a vertex to the vanishing point contains the
\* projected edge
EdgesMeetVanishingPoint ==
    updates > 0 =>
        \A e \in 1 .. 12 :
            EdgeHasVanishingPoint(e) =>
                LET pe == ProjectedEdge(e)
                IN  /\ Collinear(pe.p1, pe.p2, pe.vp)
                    /\ HasGuide(pe.axis, pe.p1, pe.vp)
                    /\ HasGuide(pe.axis, pe.p2, pe.vp)

\* two axes have vanishing points off the centre, and an edge of each is
\* drawn with distinct end points away from its vanishing point
TwoVanishingPointsWitness ==
    /\ updates > 0
    /\ viewpointPosition.x # I(0)
    /\ \E e, f \in 1 .. 12 :
           /\ ProjectedEdge(e).axis # ProjectedEdge(f).axis
           /\ \A g \in {e, f} :
                  /\ EdgeHasVanishingPoint(g)
                  /\ ProjectedEdge(g).vp # V2(I(0), I(0))
                  /\ ProjectedEdge(g).p1 # ProjectedEdge(g).p2
                  /\ ProjectedEdge(g).p1 # ProjectedEdge(g).vp
                  /\ ProjectedEdge(g).p2 # ProjectedEdge(g).vp

----------------------------------------------------------------------------
(* The windows of the four views *)

\* the view has a perspective camera
isPerspectiveCamera(id) == id \in {"linear3D", "hemi3D"}

\* the stages of the timers of one show: after 10 ms, 50 ms after that,
\* and after 200 ms
TimerStages == <<"first", "second", "late">>

StageIndex(stage) == CHOOSE k \in 1 .. 3 : TimerStages[k] = stage

\* the test of the callbacks: state.renderers[viewId], set for every view
\* by setupScenes
rendererExists(id) == id \in Viewports

\* WindowManager.toggleWindow(viewId + '-window')
toggleWindow(id) ==
    /\ changes < MaxChanges
    /\ changes' = changes + 1
    /\ windowStates' = [windowStates EXCEPT ![id] = ~windowStates[id]]
    /\ windowTimers' =
           IF windowStates[id] THEN windowTimers
           ELSE windowTimers \cup {[viewId |-> id, stage |-> "first", show |-> changes],
                                   [viewId |-> id, stage |-> "late", show |-> changes]}
    /\ windowEvent' = [kind |-> "toggle", viewId |-> id, shown |-> ~windowStates[id]]
    /\ UNCHANGED views
    /\ UNCHANGED inputVars
    /\ UNCHANGED outputVars
    /\ UNCHANGED <<hemispherePosition, interfaceVars, updates>>
    /\ UNCHANGED modeVars
    /\ UNCHANGED kernelVars

\* the timers run out in the order of their times: within one show the
\* 10 ms timer, then the 50 ms timer it sets, then the 200 ms timer; of two
\* timers of one stage the one of the earlier show
Ready(t) ==
    \A u \in windowTimers :
        /\ (u.show = t.show => StageIndex(u.stage) >= StageIndex(t.stage))
        /\ (u.stage = t.stage => u.show >= t.show)

\* update2DCameras: the aspect of both 2D cameras from their elements
update2DCameras(v) ==
    [id \in Viewports |->
        IF isPerspectiveCamera(id) THEN v[id]
        ELSE [v[id] EXCEPT !.aspect = Aspect(ClientSize(windowStates, id))]]

\* the views after the callback of a timer
CallbackViews(t) ==
    LET size == ClientSize(windowStates, t.viewId)
        sized == [views EXCEPT ![t.viewId].size = size]
    IN  CASE t.stage = "first" ->
                 IF isPerspectiveCamera(t.viewId)
                 THEN [sized EXCEPT ![t.viewId].aspect = Aspect(size)]
                 ELSE update2DCameras(sized)
          [] t.stage = "second" -> views
          [] t.stage = "late" -> sized

\* the callback of a timer of toggleWindow
WindowCallback(t) ==
    /\ t \in windowTimers
    /\ Ready(t)
    /\ windowTimers' =
           (windowTimers \ {t})
               \cup IF t.stage = "first" /\ rendererExists(t.viewId)
                    THEN {[viewId |-> t.viewId, stage |-> "second", show |-> t.show]}
                    ELSE {}
    /\ IF t.stage = "second" \/ rendererExists(t.viewId)
       THEN /\ views' = CallbackViews(t)
            /\ viewportDirty' = [viewportDirty EXCEPT ![t.viewId] = TRUE]
            /\ needsUpdate' = [needsUpdate EXCEPT !.render = TRUE]
            /\ windowEvent' = [kind |-> "callback", viewId |-> t.viewId, stage |-> t.stage,
                               show |-> t.show, resized |-> t.stage # "second",
                               rendered |-> TRUE]
       ELSE /\ UNCHANGED <<views, viewportDirty, needsUpdate>>
            /\ windowEvent' = [kind |-> "callback", viewId |-> t.viewId, stage |-> t.stage,
                               show |-> t.show, resized |-> FALSE, rendered |-> FALSE]
    /\ UNCHANGED windowStates
    /\ UNCHANGED inputVars
    /\ UNCHANGED outputVars
    /\ UNCHANGED <<hemispherePosition, fieldVars, panelVars, debounceVars, recentActivity,
                   rendered, frames, changes, updates>>
    /\ UNCHANGED modeVars
    /\ UNCHANGED kernelVars

\* every timer toggleWindow can set
WindowTimerSet ==
    [viewId : Viewports, stage : {"first", "second", "late"}, show : 0 .. MaxChanges]

NextWindows ==
    \/ \E id \in Viewports : toggleWindow(id)
    \/ \E t \in WindowTimerSet : WindowCallback(t)

SpecWindows == Init /\ [][NextWindows]_vars

\* a timer of toggleWindow has run out in this step
CallbackFired == windowTimers' # windowTimers /\ windowEvent'.kind = "callback"

\* C30: the delayed resize-and-render callbacks scheduled when a window is
\* shown act only if that window is still visible when they fire: a
\* window that has been hidden again is neither resized nor rendered by a
\* callback left over from the earlier show
CallbacksActOnVisibleOnly ==
    [][CallbackFired =>
           ((windowEvent'.resized \/ windowEvent'.rendered)
                => windowStates[windowEvent'.viewId])]_vars

====
